---------------------------- MODULE Spec2Model ----------------------------
(***************************************************************************)
(* A model of the two PagesDataParser adapters of siga-helper-chrome:      *)
(*   - the transcript (guarani) adapter, src/unnamed/part_000              *)
(*   - the portal (siga) adapter, src/js/siga/PagesDataParser.js           *)
(*                                                                         *)
(* Three specifications share this module:                                 *)
(*   SpecScan     the token scan of the transcript getClassSchedules       *)
(*   SpecHistory  getPassedCourses / getStartYear of both adapters         *)
(*   Spec         the adapters as promise chains over the fetch cache      *)
(*                                                                         *)
(* JavaScript strings are opaque here, so every regular expression and     *)
(* string conversion of the source is tabulated over a finite alphabet of  *)
(* representative tokens.                                                  *)
(***************************************************************************)
EXTENDS Integers, Sequences, FiniteSets, Bags, TLC

VARIABLES
    \* ---- transcript getClassSchedules (SpecScan) ----
    contents,        \* the pdf's text fragments, as fetchPdfContents returns them
    i,               \* the read position of the scan (0-based, as in the source)
    classSchedules,  \* the records accumulated by the loop
    scanPc,          \* where the then-callback / catch-callback stands
    scanError,       \* the value thrown, when one was
    scanResult,      \* the promise's outcome
    scanLog,         \* the calls made to apiConnector.logMessage
    \* ---- academic history of both adapters (SpecHistory) ----
    histAdapter,     \* "transcript" or "portal"
    histOp,          \* the public operation called
    histContent,     \* what the page held: the items, the rows, or the start date
    histPc,          \* where the promise chain stands
    courseHistory,   \* what parseAcademicHistory resolved with
    histError,       \* the value thrown, when one was
    histResult,      \* the promise's outcome
    histLog,         \* the calls made to apiConnector.logMessage
    \* ---- the adapters as promise chains over the fetch cache (Spec) ----
    adapter,               \* "portal" or "transcript": the PagesDataParser built
    CACHED_PAGE_CONTENTS,  \* url -> the content stored for it
    calls,                 \* the calls made to the public operations, in order
    requests,              \* the network requests issued
    logMessages            \* the calls made to apiConnector.logMessage, as a bag

scanVars == <<contents, i, classSchedules, scanPc, scanError, scanResult, scanLog>>
histVars == <<histAdapter, histOp, histContent, histPc, courseHistory, histError,
              histResult, histLog>>

sysVars == <<adapter, CACHED_PAGE_CONTENTS, calls, requests, logMessages>>

vars == <<scanVars, histVars, sysVars>>

\* What the actions of one specification leave alone.
notScanVars == <<histVars, sysVars>>
notHistVars == <<scanVars, sysVars>>
notSysVars == <<scanVars, histVars>>

-----------------------------------------------------------------------------
(* JavaScript values *)

\* `undefined`: what an array read past the end gives.
UNDEFINED == "<undefined>"
\* `null`
NULL == "<null>"
\* No value: the promise is not settled, or nothing was thrown.
NONE == [msg |-> "none"]
\* The values an operation may resolve with where a number or a string is
\* due: tagged, so that null and undefined can stand beside them.
JsNull == [null |-> TRUE]
JsUndefined == [undefined |-> TRUE]
Num(n) == [number |-> n]
Str(t) == [string |-> t]

-----------------------------------------------------------------------------
(* Bounds *)

\* The most records a generated document holds.
MaxRecords == 2
\* The most entries (items or table rows) an academic history holds.
MaxHistory == 3

-----------------------------------------------------------------------------
(* The documents *)

HeaderContents == <<"", "COMPROBANTE DE INSCRIPCIÓN A CURSADA">>
ColumnContents == <<"Código", "Actividad", "Período", "Comisión", "Ubicación", "Aula", "Horario">>
EscuelaContents == <<"Técnica -">>
TrailingMarker == "Firma y Sello Departamento"
SundaySentinelsWithoutNight == {"Do(m)0:0", "Do(t)0:0", "Sin definir"}
SundaySentinels == {"Do(m)0:0", "Do(t)0:0", "Do(n)0:0", "Sin definir"}

\* The tokens of well-formed records; each record is the tokens of one row.
RecordShapes ==
    { <<"950701", "Fisica I", "1er Cuat 2021", "z1154", "Campus", "2", "Lu(n)1:5 Mi(n)0:2">>,
      <<"950702", "Analisis de Sistemas", "de Informacion", "Anual 2022", "K1001", "Campus Virtual", "Sin definir", "Sin definir">>,
      <<"950701", "Fisica I", "2do Cuat 2021", "Z1154", "Escuela", "Técnica -", "5", "Do(m)0:0">>,
      <<"950702", "Quimica", "Anual 2021", "K1001", "Sin designar", "Sin definir", "Ma(t)2:4">> }

\* The tokens a perturbed document may hold in place of the right one.
ReplacementTokens ==
    { TrailingMarker, "1er Cuat 2021", "950701", "Escuela", "95070", "" }

RECURSIVE Flatten(_)
Flatten(seqs) ==
    IF seqs = <<>> THEN <<>> ELSE Head(seqs) \o Flatten(Tail(seqs))

RecordLists == UNION { [1..n -> RecordShapes] : n \in 0..MaxRecords }

WellFormedDocuments ==
    { HeaderContents \o <<idName>> \o ColumnContents \o Flatten(rs) \o <<TrailingMarker>> :
        idName \in {"12.345-6 Jane Doe", "123.456- Jane Doe"}, rs \in RecordLists }

Truncated(doc) == { SubSeq(doc, 1, n) : n \in 0..(Len(doc) - 1) }
Replaced(doc) ==
    { [doc EXCEPT ![p] = t] : p \in 1..Len(doc), t \in ReplacementTokens }
Deleted(doc) ==
    { SubSeq(doc, 1, p - 1) \o SubSeq(doc, p + 1, Len(doc)) : p \in 1..Len(doc) }

\* The schedule strings documented as standing for no schedule.
SentinelStrings == {"Do(m)0:0", "Do(t)0:0", "Do(n)0:0", "Sin definir"}

\* A document with one of its room or schedule tokens replaced by one of them.
WithSentinel(doc) ==
    { [doc EXCEPT ![p] = t] :
          p \in { q \in 1..Len(doc) :
                     doc[q] \in {"Lu(n)1:5 Mi(n)0:2", "Ma(t)2:4"} \cup SentinelStrings },
          t \in SentinelStrings }

\* Every document the scan is run on: the empty pdf, the well-formed ones, and
\* each well-formed one cut short, with one token replaced, with one token
\* lost, or with a sentinel for a schedule.
Documents ==
    { <<"">> } \cup WellFormedDocuments
      \cup UNION { Truncated(d) \cup Replaced(d) \cup Deleted(d) \cup WithSentinel(d) :
                     d \in WellFormedDocuments }

-----------------------------------------------------------------------------
(* The field grammars, tabulated over the alphabet *)

\* contents[k], k counted from 0; past the end JavaScript gives undefined.
At(c, k) == IF k >= 0 /\ k < Len(c) THEN c[k + 1] ELSE UNDEFINED

\* /^(\d{2,3}\.\d{3}-\d?) (.*)$/
StudentIdAndNameMatches(t) == t \in {"12.345-6 Jane Doe", "123.456- Jane Doe"}

\* /^\d{6}$/
CourseCodeMatches(t) == t \in {"950701", "950702"}

\* /^((1|2)(?:er|do) Cuat|Anual) (\d{4})$/ : the groups of each matching token
\* (group 2 is undefined when the first alternative did not take part).
yearAndQuarterRegex ==
    ( "1er Cuat 2021" :> <<"1er Cuat", "1", "2021">> ) @@
    ( "2do Cuat 2021" :> <<"2do Cuat", "2", "2021">> ) @@
    ( "1do Cuat 2022" :> <<"1do Cuat", "1", "2022">> ) @@
    ( "Anual 2021" :> <<"Anual", UNDEFINED, "2021">> ) @@
    ( "Anual 2022" :> <<"Anual", UNDEFINED, "2022">> )

YearAndQuarterMatches(t) == t \in DOMAIN yearAndQuarterRegex

\* groups[2] + "C"
PlusC(g) == CASE g = "1" -> "1C" [] g = "2" -> "2C" [] OTHER -> "undefinedC"

\* parseInt of four digits
ParseInt(s) == CASE s = "2019" -> 2019 [] s = "2021" -> 2021 [] s = "2022" -> 2022 [] OTHER -> 0

\* A mutant: the quarter is the matched text of the period.
QuarterOfMatchedText(groups) == groups[1]

\* (groups[1] === "Anual") ? "A" : (groups[2] + "C")
QuarterOf(groups) == IF groups[1] = "Anual" THEN "A" ELSE PlusC(groups[2])

\* String.prototype.toUpperCase over the alphabet (tokens without lower-case
\* letters are their own upper case).
ToUpperCase(t) ==
    CASE t = "z1154" -> "Z1154"
      [] t = "Campus" -> "CAMPUS"
      [] t = "Medrano" -> "MEDRANO"
      [] t = "Campus Virtual" -> "CAMPUS VIRTUAL"
      [] t = "Escuela" -> "ESCUELA"
      [] t = "Sin designar" -> "SIN DESIGNAR"
      [] t = "Sin definir" -> "SIN DEFINIR"
      [] t = "Técnica -" -> "TÉCNICA -"
      [] t = "Fisica I" -> "FISICA I"
      [] t = "Quimica" -> "QUIMICA"
      [] t = "Analisis de Sistemas" -> "ANALISIS DE SISTEMAS"
      [] t = "de Informacion" -> "DE INFORMACION"
      [] t = "1er Cuat 2021" -> "1ER CUAT 2021"
      [] t = "2do Cuat 2021" -> "2DO CUAT 2021"
      [] t = "1do Cuat 2022" -> "1DO CUAT 2022"
      [] t = "Anual 2021" -> "ANUAL 2021"
      [] t = "Anual 2022" -> "ANUAL 2022"
      [] t = "Firma y Sello Departamento" -> "FIRMA Y SELLO DEPARTAMENTO"
      [] t = "12.345-6 Jane Doe" -> "12.345-6 JANE DOE"
      [] t = "123.456- Jane Doe" -> "123.456- JANE DOE"
      [] t = "Lu(n)1:5 Mi(n)0:2" -> "LU(N)1:5 MI(N)0:2"
      [] t = "Ma(t)2:4" -> "MA(T)2:4"
      [] t = "Do(m)0:0" -> "DO(M)0:0"
      [] OTHER -> t

\* .replace(" ", "_"): the first space only
ReplaceSpace(t) ==
    CASE t = "CAMPUS VIRTUAL" -> "CAMPUS_VIRTUAL"
      [] t = "SIN DESIGNAR" -> "SIN_DESIGNAR"
      [] t = "SIN DEFINIR" -> "SIN_DEFINIR"
      [] t = "TÉCNICA -" -> "TÉCNICA_-"
      [] t = "FISICA I" -> "FISICA_I"
      [] t = "ANALISIS DE SISTEMAS" -> "ANALISIS_DE SISTEMAS"
      [] t = "DE INFORMACION" -> "DE_INFORMACION"
      [] t = "1ER CUAT 2021" -> "1ER_CUAT 2021"
      [] t = "2DO CUAT 2021" -> "2DO_CUAT 2021"
      [] t = "1DO CUAT 2022" -> "1DO_CUAT 2022"
      [] t = "ANUAL 2021" -> "ANUAL_2021"
      [] t = "ANUAL 2022" -> "ANUAL_2022"
      [] t = "FIRMA Y SELLO DEPARTAMENTO" -> "FIRMA_Y SELLO DEPARTAMENTO"
      [] t = "12.345-6 JANE DOE" -> "12.345-6_JANE DOE"
      [] t = "123.456- JANE DOE" -> "123.456-_JANE DOE"
      [] t = "LU(N)1:5 MI(N)0:2" -> "LU(N)1:5_MI(N)0:2"
      [] OTHER -> t

\* .replace("CAMPUS_VIRTUAL", "AULA_VIRTUAL")
ReplaceCampusVirtual(t) == IF t = "CAMPUS_VIRTUAL" THEN "AULA_VIRTUAL" ELSE t

\* contents[i++].toUpperCase().replace(" ", "_").replace("CAMPUS_VIRTUAL", "AULA_VIRTUAL")
BranchOf(t) == ReplaceCampusVirtual(ReplaceSpace(ToUpperCase(t)))

\* utils.getSchedulesFromString, for the strings of the alphabet that follow the
\* schedule grammar: one slot per space-separated part, in order.
ScheduleSlots ==
    ( "Lu(n)1:5 Mi(n)0:2" :>
        << [day |-> "MONDAY", shift |-> "NIGHT", firstHour |-> 1, lastHour |-> 5],
           [day |-> "WEDNESDAY", shift |-> "NIGHT", firstHour |-> 0, lastHour |-> 2] >> ) @@
    ( "Ma(t)2:4" :>
        << [day |-> "TUESDAY", shift |-> "AFTERNOON", firstHour |-> 2, lastHour |-> 4] >> )

\* What utils.getSchedulesFromString(str) may do: for a string of the schedule
\* grammar it returns the slots; for any other value (undefined included) it
\* either throws or returns some value that holds no slots.
getSchedulesFromString(str) ==
    IF str \in DOMAIN ScheduleSlots
        THEN { [threw |-> FALSE, value |-> [null |-> FALSE, slots |-> ScheduleSlots[str]]] }
        ELSE { [threw |-> TRUE, value |-> NONE],
               [threw |-> FALSE, value |-> [null |-> FALSE, slots |-> <<>>]] }

-----------------------------------------------------------------------------
(* The transcript getClassSchedules: the scan of the pdf's tokens *)

\* `Invalid pdf contents (${i - 1}): ${JSON.stringify(contents)}`
InvalidPdfContents(index, c) ==
    [msg |-> "Invalid pdf contents", index |-> index, contents |-> c]

\* The other template strings thrown by the scan: the text, the value
\* interpolated first, and the stringified contents.
ParseError(msg, arg, c) == [msg |-> msg, arg |-> arg, contents |-> c]

\* What calling a method on undefined throws.
TypeError == [msg |-> "TypeError"]

\* A mutant: the index reported is the one after the mismatch (i, not i - 1).
RECURSIVE validateExpectedContentsReportsNext(_, _, _)
validateExpectedContentsReportsNext(c, i0, expectedContents) ==
    IF expectedContents = <<>>
        THEN [threw |-> FALSE, i |-> i0, error |-> NONE]
        ELSE IF At(c, i0) # Head(expectedContents)
            THEN [threw |-> TRUE, i |-> i0 + 1, error |-> InvalidPdfContents(i0 + 1, c)]
            ELSE validateExpectedContentsReportsNext(c, i0 + 1, Tail(expectedContents))

\* expectedContents.forEach(expectedContent => { if (contents[i++] !== expectedContent) throw ... })
\* from position i0: whether it threw, the position it leaves, and the error.
RECURSIVE validateExpectedContents(_, _, _)
validateExpectedContents(c, i0, expectedContents) ==
    IF expectedContents = <<>>
        THEN [threw |-> FALSE, i |-> i0, error |-> NONE]
        ELSE IF At(c, i0) # Head(expectedContents)
            THEN [threw |-> TRUE, i |-> (i0 + 1), error |-> InvalidPdfContents((i0 + 1) - 1, c)]
            ELSE validateExpectedContents(c, i0 + 1, Tail(expectedContents))

\* A mutant: the scan also stops when the tokens run out.
LoopEndsOrContentsEnd(c, k) == k >= Len(c) \/ At(c, k) = TrailingMarker

\* The negation of the loop's condition, contents[i] !== "Firma y Sello Departamento".
LoopEnds(c, k) == At(c, k) = TrailingMarker

\* A mutant: the wrapped part of the name is dropped instead of appended.
WrappedCourseNameDropsSecond(courseName, yearAndQuarter) == <<courseName>>

\* `${courseName} ${yearAndQuarter}`: the two parts joined by one space, kept
\* as the sequence of the parts.
WrappedCourseName(courseName, yearAndQuarter) == <<courseName, yearAndQuarter>>

Thrown(k, e) == [threw |-> TRUE, i |-> k, error |-> e, record |-> NONE]

\* A mutant: the room number is not skipped.
RecordTailWithoutRoom(c, k, fields) ==
    LET schedulesStr == At(c, k)
        emit(schedules) ==
            [threw |-> FALSE, i |-> k + 1, error |-> NONE,
             record |-> [year |-> fields.year, quarter |-> fields.quarter,
                         courseName |-> fields.courseName, classCode |-> fields.classCode,
                         courseCode |-> fields.courseCode, branch |-> fields.branch,
                         schedules |-> schedules]]
    IN  IF schedulesStr \in SundaySentinels
            THEN { emit([null |-> TRUE]) }
            ELSE { IF o.threw THEN Thrown(k + 1, TypeError) ELSE emit(o.value) :
                       o \in getSchedulesFromString(schedulesStr) }

\* The end of the loop's body, from the room number at position k on:
\* i++; schedulesStr = contents[i++]; the sentinel test; the push.
RecordTail(c, k, fields) ==
    LET schedulesStr == At(c, k + 1)
        emit(schedules) ==
            [threw |-> FALSE, i |-> k + 2, error |-> NONE,
             record |-> [year |-> fields.year, quarter |-> fields.quarter,
                         courseName |-> fields.courseName, classCode |-> fields.classCode,
                         courseCode |-> fields.courseCode, branch |-> fields.branch,
                         schedules |-> schedules]]
    IN  IF schedulesStr \in SundaySentinels
            THEN { emit([null |-> TRUE]) }
            ELSE { IF o.threw THEN Thrown(k + 2, TypeError) ELSE emit(o.value) :
                       o \in getSchedulesFromString(schedulesStr) }

\* The loop's body from the class code at position k on.
RecordBranch(c, k, fields) ==
    LET classCode == At(c, k)
        branchToken == At(c, k + 1)
    IN  IF classCode = UNDEFINED THEN { Thrown(k + 1, TypeError) }
        ELSE IF branchToken = UNDEFINED THEN { Thrown(k + 2, TypeError) }
        ELSE LET branch == BranchOf(branchToken)
                 withClass == [f \in {"classCode"} |-> ToUpperCase(classCode)] @@ fields
             IN  IF branch = "ESCUELA"
                     THEN LET v == validateExpectedContents(c, k + 2, EscuelaContents)
                          IN  IF v.threw THEN { Thrown(v.i, v.error) }
                              ELSE RecordTail(c, v.i, [f \in {"branch"} |-> "PIÑERO"] @@ withClass)
                     ELSE RecordTail(c, k + 2,
                              [f \in {"branch"} |-> IF branch = "SIN_DESIGNAR" THEN NULL ELSE branch]
                                  @@ withClass)

\* One pass of the loop's body from position i0: the outcomes it may have.
RecordOutcomes(c, i0) ==
    LET courseCode == At(c, i0)
        courseName == At(c, i0 + 1)
        yearAndQuarter == At(c, i0 + 2)
        wrapped == ~YearAndQuarterMatches(yearAndQuarter)
        yearAndQuarter2 == IF wrapped THEN At(c, i0 + 3) ELSE yearAndQuarter
        i1 == IF wrapped THEN i0 + 4 ELSE i0 + 3
    IN  IF ~CourseCodeMatches(courseCode)
            THEN { Thrown(i0 + 1, ParseError("courseCode couldn't be parsed", courseCode, c)) }
        ELSE IF ~YearAndQuarterMatches(yearAndQuarter2)
            THEN { Thrown(i1, ParseError("Class time couldn't be parsed", yearAndQuarter2, c)) }
        ELSE LET groups == yearAndQuarterRegex[yearAndQuarter2]
             IN  RecordBranch(c, i1,
                     [courseCode |-> courseCode,
                      courseName |-> IF wrapped THEN WrappedCourseName(courseName, yearAndQuarter)
                                                ELSE <<courseName>>,
                      quarter |-> QuarterOf(groups),
                      year |-> ParseInt(groups[3])])

\* trackError(e, methodName): the call apiConnector.logMessage(methodName, true, stringifyError(e))
trackError(e, methodName) == [methodName |-> methodName, isError |-> TRUE, detail |-> e]

\* The adapter variables of a behaviour that is about one callback alone.
SysIdle ==
    /\ adapter = "none"
    /\ CACHED_PAGE_CONTENTS = <<>>
    /\ calls = <<>>
    /\ requests = {}
    /\ logMessages = EmptyBag

\* The history variables of a behaviour that is not about the history.
HistIdle ==
    /\ histAdapter = "none"
    /\ histOp = "none"
    /\ histContent = <<>>
    /\ histPc = "idle"
    /\ courseHistory = <<>>
    /\ histError = NONE
    /\ histResult = [state |-> "pending"]
    /\ histLog = <<>>

Pending == [state |-> "pending"]
Resolved(v) == [state |-> "resolved", value |-> v]
Rejected(e) == [state |-> "rejected", reason |-> e]

\* The scan variables of a behaviour that is not about the scan.
ScanIdle ==
    /\ contents = <<>>
    /\ i = 0
    /\ classSchedules = <<>>
    /\ scanPc = "idle"
    /\ scanError = NONE
    /\ scanResult = Pending
    /\ scanLog = <<>>

ScanInit ==
    /\ contents \in Documents
    /\ i = 0
    /\ classSchedules = <<>>
    /\ scanPc = "start"
    /\ scanError = NONE
    /\ scanResult = Pending
    /\ scanLog = <<>>
    /\ HistIdle
    /\ SysIdle

IsEmptyPdf(c) == Len(c) = 1 /\ c[1] = ""

\* if (contents.length === 1 && contents[0] === "") return [];
ScanEmptyPdf ==
    /\ scanPc = "start"
    /\ IsEmptyPdf(contents)
    /\ scanPc' = "done"
    /\ scanResult' = Resolved(<<>>)
    /\ UNCHANGED <<contents, i, classSchedules, scanError, scanLog>>
    /\ UNCHANGED notScanVars

\* A validateExpectedContents call at scanPc = from, going to `to` when it passes.
ScanValidate(from, expectedContents, to) ==
    /\ scanPc = from
    /\ LET v == validateExpectedContents(contents, i, expectedContents)
       IN  /\ i' = v.i
           /\ scanError' = v.error
           /\ scanPc' = IF v.threw THEN "thrown" ELSE to
    /\ UNCHANGED <<contents, classSchedules, scanResult, scanLog>>
    /\ UNCHANGED notScanVars

\* validateExpectedContents(["", "COMPROBANTE DE INSCRIPCIÓN A CURSADA"]);
ScanValidateHeader ==
    /\ ~IsEmptyPdf(contents)
    /\ ScanValidate("start", HeaderContents, "idName")

\* let studentIdAndName = contents[i++]; the regex; the throw when it does not match
ScanStudentIdAndName ==
    /\ scanPc = "idName"
    /\ i' = i + 1
    /\ IF StudentIdAndNameMatches(At(contents, i))
          THEN scanPc' = "columns" /\ scanError' = scanError
          ELSE /\ scanPc' = "thrown"
               /\ scanError' = ParseError("Couldn't parse studentIdAndName", At(contents, i), contents)
    /\ UNCHANGED <<contents, classSchedules, scanResult, scanLog>>
    /\ UNCHANGED notScanVars

\* validateExpectedContents(["Código", ..., "Horario"]);
ScanValidateColumns == ScanValidate("columns", ColumnContents, "loop")

\* One pass of while (contents[i] !== "Firma y Sello Departamento") { ... }
ScanRecord ==
    /\ scanPc = "loop"
    /\ ~LoopEnds(contents, i)
    /\ \E o \in RecordOutcomes(contents, i) :
           /\ i' = o.i
           /\ scanError' = o.error
           /\ scanPc' = IF o.threw THEN "thrown" ELSE "loop"
           /\ classSchedules' = IF o.threw THEN classSchedules ELSE Append(classSchedules, o.record)
    /\ UNCHANGED <<contents, scanResult, scanLog>>
    /\ UNCHANGED notScanVars

\* return classSchedules;
ScanReturn ==
    /\ scanPc = "loop"
    /\ LoopEnds(contents, i)
    /\ scanPc' = "done"
    /\ scanResult' = Resolved(classSchedules)
    /\ UNCHANGED <<contents, i, classSchedules, scanError, scanLog>>
    /\ UNCHANGED notScanVars

\* .catch(e => { trackError(e, "getClassSchedules"); throw e; })
ScanCatch ==
    /\ scanPc = "thrown"
    /\ scanPc' = "done"
    /\ scanLog' = Append(scanLog, trackError(scanError, "getClassSchedules"))
    /\ scanResult' = Rejected(scanError)
    /\ UNCHANGED <<contents, i, classSchedules, scanError>>
    /\ UNCHANGED notScanVars

ScanNext ==
    \/ ScanEmptyPdf
    \/ ScanValidateHeader
    \/ ScanStudentIdAndName
    \/ ScanValidateColumns
    \/ ScanRecord
    \/ ScanReturn
    \/ ScanCatch

SpecScan == ScanInit /\ [][ScanNext]_vars

\* The scan under the scheduling of the promise chain: the callbacks of one
\* chain run one after the other, each to completion, as long as one is due.
SpecScanFair == ScanInit /\ [][ScanNext]_vars /\ WF_vars(ScanNext)

-----------------------------------------------------------------------------
(* Claims about the scan (checked under SpecScan) *)

\* The positions of the block expectedContents, laid from i0 on, whose token
\* is not the expected literal.
Mismatches(c, i0, expectedContents) ==
    { k \in i0..(i0 + Len(expectedContents) - 1) : At(c, k) # expectedContents[k - i0 + 1] }

Least(S) == CHOOSE x \in S : \A y \in S : x <= y

\* A validateExpectedContents call due at scanPc = from fails at the first
\* mismatch k: the error names k and carries the whole contents and nothing
\* else, the cursor stands right after k, and nothing is resolved.
FailsAtFirstMismatch(from, expectedContents) ==
    (scanPc = from /\ ~IsEmptyPdf(contents) /\ Mismatches(contents, i, expectedContents) # {}) =>
        LET k == Least(Mismatches(contents, i, expectedContents))
        IN  /\ scanPc' = "thrown"
            /\ scanError' = [msg |-> "Invalid pdf contents", index |-> k, contents |-> contents]
            /\ i' = k + 1
            /\ scanResult' = Pending
            /\ classSchedules' = classSchedules

\* The position of the branch token of the record that starts at i0.
BranchPosition(c, i0) == IF YearAndQuarterMatches(At(c, i0 + 2)) THEN i0 + 4 ELSE i0 + 5

\* The record at i reaches its ESCUELA branch and the token after it is not
\* the expected continuation.
EscuelaMismatch ==
    /\ scanPc = "loop"
    /\ ~LoopEnds(contents, i)
    /\ CourseCodeMatches(At(contents, i))
    /\ YearAndQuarterMatches(At(contents, BranchPosition(contents, i) - 2))
    /\ At(contents, BranchPosition(contents, i)) = "Escuela"
    /\ At(contents, BranchPosition(contents, i) + 1) # "Técnica -"

\* C5 (as amended): when the token at cursor position k differs from the
\* corresponding expected literal, the call fails at the first such mismatch
\* with an error that names the index k and carries the whole token sequence
\* (so the actual token can be read off it) but not the expected literal; no
\* later token is consumed and no record, not even one already accumulated,
\* is returned: the promise is rejected with that error.
C5_ExpectFailsAtFirstMismatch ==
    [][ /\ FailsAtFirstMismatch("start", HeaderContents)
        /\ FailsAtFirstMismatch("columns", ColumnContents)
        /\ EscuelaMismatch =>
               /\ scanPc' = "thrown"
               /\ scanError' = [msg |-> "Invalid pdf contents",
                                index |-> BranchPosition(contents, i) + 1,
                                contents |-> contents]
               /\ i' = BranchPosition(contents, i) + 2
               /\ classSchedules' = classSchedules
        /\ (scanPc = "thrown" /\ scanError.msg = "Invalid pdf contents") =>
               /\ scanResult' = [state |-> "rejected", reason |-> scanError]
               /\ i' = i
      ]_vars

\* C5 witness: an expect failure inside the loop, after a record had been
\* accumulated, has rejected the call.
C5_Witness ==
    /\ scanResult.state = "rejected"
    /\ scanError.msg = "Invalid pdf contents"
    /\ classSchedules # <<>>
    /\ At(contents, scanError.index) # UNDEFINED

\* C5 (as stated): the error of a failed expect identifies the index, the
\* expected literal and the actual token.
C5_ErrorNamesIndexExpectedActual ==
    scanError.msg = "Invalid pdf contents" =>
        {"index", "expected", "actual"} \subseteq DOMAIN scanError

\* A record none of whose fields comes from an absent token.
NoAbsentField(r) ==
    /\ r.courseCode # UNDEFINED
    /\ \A n \in 1..Len(r.courseName) : r.courseName[n] # UNDEFINED
    /\ r.classCode # UNDEFINED
    /\ r.branch # UNDEFINED

\* C6: for every token sequence other than the single-empty-token document,
\* once the cursor stands at or past the end of the sequence (so that a read
\* is out of bounds) the call never resolves, and it ends rejected; a
\* resolved call holds no record built from an absent token.
C6_OutOfBoundsFails ==
    /\ (~IsEmptyPdf(contents) /\ i >= Len(contents)) =>
           /\ scanResult.state # "resolved"
           /\ scanPc = "done" => scanResult.state = "rejected"
    /\ scanResult.state = "resolved" =>
           \A n \in 1..Len(scanResult.value) : NoAbsentField(scanResult.value[n])

\* C6 witness: the trailing marker is missing at a record boundary: after a
\* record was accumulated the loop read past the end and the call was rejected.
C6_Witness ==
    /\ scanResult.state = "rejected"
    /\ i > Len(contents)
    /\ classSchedules # <<>>
    /\ scanError.msg = "courseCode couldn't be parsed"
    /\ scanError.arg = UNDEFINED

\* The schedules a record must carry for the schedule token t.
SchedulesFor(t, schedules) ==
    IF t \in SundaySentinels THEN schedules = [null |-> TRUE]
    ELSE t \in DOMAIN ScheduleSlots => schedules = [null |-> FALSE, slots |-> ScheduleSlots[t]]

\* C7: when the token after the course name fails the year/quarter grammar it
\* is appended to the course name (joined by one space) and exactly one more
\* token is consumed as year/quarter; class code, branch, room and schedule
\* are then read one position later than usual. If the re-consumed token
\* fails the grammar too, the call fails without consuming a third one.
C7_CourseNameWrap ==
    [][ (/\ scanPc = "loop"
         /\ ~LoopEnds(contents, i)
         /\ CourseCodeMatches(At(contents, i))
         /\ ~YearAndQuarterMatches(At(contents, i + 2))) =>
            IF ~YearAndQuarterMatches(At(contents, i + 3))
                THEN /\ scanPc' = "thrown"
                     /\ i' = i + 4
                     /\ scanError'.msg = "Class time couldn't be parsed"
                     /\ scanError'.arg = At(contents, i + 3)
                     /\ classSchedules' = classSchedules
                ELSE scanPc' = "loop" =>
                     LET r == classSchedules'[Len(classSchedules')]
                         escuela == At(contents, i + 5) = "Escuela"
                     IN  /\ classSchedules' = Append(classSchedules, r)
                         /\ r.courseCode = At(contents, i)
                         /\ r.courseName = <<At(contents, i + 1), At(contents, i + 2)>>
                         /\ r.quarter = QuarterOf(yearAndQuarterRegex[At(contents, i + 3)])
                         /\ r.year = ParseInt(yearAndQuarterRegex[At(contents, i + 3)][3])
                         /\ r.classCode = ToUpperCase(At(contents, i + 4))
                         /\ r.branch = IF escuela THEN "PIÑERO"
                                       ELSE IF At(contents, i + 5) = "Sin designar" THEN NULL
                                       ELSE BranchOf(At(contents, i + 5))
                         /\ i' = IF escuela THEN i + 9 ELSE i + 8
                         /\ SchedulesFor(At(contents, i' - 1), r.schedules)
      ]_vars

\* C7 witness: a call resolved with a record whose name was reassembled from
\* two tokens.
C7_Witness ==
    /\ scanResult.state = "resolved"
    /\ \E n \in 1..Len(scanResult.value) : Len(scanResult.value[n].courseName) = 2

-----------------------------------------------------------------------------
(* The academic history: parseAcademicHistory, getPassedCourses, getStartYear *)

\* typesMap
typesMap ==
    ( "En curso" :> "SIGNED" ) @@
    ( "Regularidad" :> "SIGNED" ) @@
    ( "Promoción" :> "PASSED" ) @@
    ( "Examen" :> "PASSED" ) @@
    ( "Equivalencia Parcial" :> "SIGNED" ) @@
    ( "Equivalencia Total" :> "PASSED" )

\* /\((\d{6})\)/ over the course texts of the alphabet: group 1 of each match.
courseTextRegex ==
    ( "Fisica I (950701)" :> "950701" ) @@
    ( "Quimica (950702)" :> "950702" )

\* historyRowRegex over the history rows of the alphabet: groups 1 to 3 (the
\* type keyword, the grade, the date) of each row that matches.
historyRowRegex ==
    ( "Regularidad - 8 (Ocho) Aprobado 10/07/2019 - Detalle" :>
        <<"Regularidad", "8 (Ocho) Aprobado", "10/07/2019">> ) @@
    ( "Examen - 7 (Siete) Aprobado 12/12/2019 - Detalle" :>
        <<"Examen", "7 (Siete) Aprobado", "12/12/2019">> ) @@
    ( "Promoción - 9 (Nueve) Promocionado 01/12/2020 - Detalle" :>
        <<"Promoción", "9 (Nueve) Promocionado", "01/12/2020">> ) @@
    ( "Examen - 2 (Dos) Reprobado 01/03/2019 - Detalle" :>
        <<"Examen", "2 (Dos) Reprobado", "01/03/2019">> ) @@
    ( "Regularidad - No aprobad (No aprobada) Reprobado 05/07/2018 - Detalle" :>
        <<"Regularidad", "No aprobad (No aprobada) Reprobado", "05/07/2018">> ) @@
    ( "En curso - Inicio de dictado 15/03/2021 - Detalle" :>
        <<"En curso", "Inicio de dictado", "15/03/2021">> ) @@
    ( "Equivalencia Total - Aprobada (Aprobada) Aprobado 01/03/2017 - Detalle" :>
        <<"Equivalencia Total", "Aprobada (Aprobada) Aprobado", "01/03/2017">> ) @@
    ( "Examen - Ausente 20/02/2019 - Detalle" :>
        <<"Examen", "Ausente", "20/02/2019">> )

\* grade.includes(part), for the grades and the three parts the source asks for.
Includes(grade, part) ==
    CASE part = "Promocionado" -> grade \in {"9 (Nueve) Promocionado"}
      [] part = "Aprobado" ->
            grade \in {"8 (Ocho) Aprobado", "7 (Siete) Aprobado", "Aprobada (Aprobada) Aprobado"}
      [] part = "No aprobad" -> grade \in {"No aprobad (No aprobada) Reprobado"}
      [] OTHER -> FALSE

\* utils.parseDate of a dd/mm/yyyy text, as <<year, month, day>>.
parseDate(text) ==
    CASE text = "10/07/2019" -> <<2019, 7, 10>>
      [] text = "12/12/2019" -> <<2019, 12, 12>>
      [] text = "01/12/2020" -> <<2020, 12, 1>>
      [] text = "01/03/2019" -> <<2019, 3, 1>>
      [] text = "05/07/2018" -> <<2018, 7, 5>>
      [] text = "15/03/2021" -> <<2021, 3, 15>>
      [] text = "01/03/2017" -> <<2017, 3, 1>>
      [] text = "20/02/2019" -> <<2019, 2, 20>>
      [] OTHER -> <<0, 0, 0>>

\* date.getFullYear()
getFullYear(date) == date[1]

\* Whether a - b < 0 for two dates (the comparator's sign).
DateBefore(a, b) ==
    \/ a[1] < b[1]
    \/ a[1] = b[1] /\ a[2] < b[2]
    \/ a[1] = b[1] /\ a[2] = b[2] /\ a[3] < b[3]

\* The items (.catedra_nombre) a history page may hold: the h4 text and the
\* span text of each.
HistoryItems ==
    { [courseText |-> "Fisica I (950701)", historyRow |-> "Regularidad - 8 (Ocho) Aprobado 10/07/2019 - Detalle"],
      [courseText |-> "Fisica I (950701)", historyRow |-> "Examen - 7 (Siete) Aprobado 12/12/2019 - Detalle"],
      [courseText |-> "Fisica I (950701)", historyRow |-> "Examen - 2 (Dos) Reprobado 01/03/2019 - Detalle"],
      [courseText |-> "Fisica I (950701)", historyRow |-> "Equivalencia Total - Aprobada (Aprobada) Aprobado 01/03/2017 - Detalle"],
      [courseText |-> "Fisica I (950701)", historyRow |-> "Regularidad - No aprobad (No aprobada) Reprobado 05/07/2018 - Detalle"],
      [courseText |-> "Quimica (950702)", historyRow |-> "Promoción - 9 (Nueve) Promocionado 01/12/2020 - Detalle"],
      [courseText |-> "Quimica (950702)", historyRow |-> "Regularidad - 8 (Ocho) Aprobado 10/07/2019 - Detalle"],
      [courseText |-> "Quimica (950702)", historyRow |-> "En curso - Inicio de dictado 15/03/2021 - Detalle"],
      [courseText |-> "Quimica (950702)", historyRow |-> "Examen - Ausente 20/02/2019 - Detalle"],
      [courseText |-> "Quimica (950702)", historyRow |-> "Regularidad 8 Aprobado"],
      [courseText |-> "Materia sin codigo", historyRow |-> "Regularidad - 8 (Ocho) Aprobado 10/07/2019 - Detalle"] }

\* The rows a portal history table may hold: the texts of cells 0, 1 and 3.
PortalHistoryRows ==
    { <<"Final", "Aprob", "950701">>,
      <<" Final ", "Aprob", " 950702 ">>,
      <<"Final", " Aprob ", "950701">>,
      <<"Final", "Desaprob", "950701">>,
      <<"Cursada", "Aprob", "950701">>,
      <<"Cursada", "Aprob", "950702">>,
      <<"Cursada", "Desaprob", "950702">>,
      <<"Equiv", "Aprob", "950701">> }

\* The texts the first cell of a row of the portal's libreta table may hold.
PortalStartDates == {"", "12/03/2015", "01/08/2009", "2015"}

\* String.prototype.trim over the cell texts
Trim(t) ==
    CASE t = " Final " -> "Final"
      [] t = " Aprob " -> "Aprob"
      [] t = " 950702 " -> "950702"
      [] OTHER -> t

\* startDate.split("/")
Split(t) ==
    CASE t = "12/03/2015" -> <<"12", "03", "2015">>
      [] t = "01/08/2009" -> <<"01", "08", "2009">>
      [] OTHER -> <<t>>

SeqsUpTo(S, n) == UNION { [1..m -> S] : m \in 0..n }

RECURSIVE SelectSeq2(_, _)
\* Array.prototype.filter
SelectSeq2(seq, keep) ==
    IF seq = <<>> THEN <<>>
    ELSE IF Head(seq) \in keep THEN <<Head(seq)>> \o SelectSeq2(Tail(seq), keep)
    ELSE SelectSeq2(Tail(seq), keep)

Range(seq) == { seq[n] : n \in 1..Len(seq) }

\* A mutant: the spread of the array itself, with no Set in between.
RECURSIVE SetSpreadKeepsAll(_)
SetSpreadKeepsAll(seq) ==
    IF seq = <<>> THEN <<>> ELSE <<Head(seq)>> \o SetSpreadKeepsAll(Tail(seq))

\* [...new Set(seq)]: the elements in the order of their first occurrence.
RECURSIVE SetSpread(_)
SetSpread(seq) ==
    IF seq = <<>> THEN <<>>
    ELSE LET front == SetSpread(SubSeq(seq, 1, Len(seq) - 1))
             last == seq[Len(seq)]
         IN  IF last \in Range(front) THEN front ELSE Append(front, last)

\* A mutant: the grade is not looked at, every row that matches is retained.
ParseHistoryItemKeepsAll(item) ==
    IF item.courseText \notin DOMAIN courseTextRegex
        THEN [threw |-> TRUE, error |-> [msg |-> "courseText couldn't be parsed", arg |-> item.courseText]]
    ELSE IF item.historyRow \notin DOMAIN historyRowRegex
        THEN [threw |-> TRUE, error |-> [msg |-> "historyRow couldn't be parsed", arg |-> item.historyRow]]
    ELSE LET groups == historyRowRegex[item.historyRow]
         IN  [threw |-> FALSE, kept |-> TRUE,
              entry |-> [courseCode |-> courseTextRegex[item.courseText],
                         type |-> typesMap[groups[1]],
                         date |-> parseDate(groups[3])]]

\* The callback of parseAcademicHistory's map, on one item: it throws, or
\* gives null (a grade that is not an approved one), or gives the entry.
ParseHistoryItem(item) ==
    IF item.courseText \notin DOMAIN courseTextRegex
        THEN [threw |-> TRUE, error |-> [msg |-> "courseText couldn't be parsed", arg |-> item.courseText]]
    ELSE IF item.historyRow \notin DOMAIN historyRowRegex
        THEN [threw |-> TRUE, error |-> [msg |-> "historyRow couldn't be parsed", arg |-> item.historyRow]]
    ELSE LET groups == historyRowRegex[item.historyRow]
             grade == groups[2]
             isApprovedGrade ==
                 (Includes(grade, "Promocionado") \/ Includes(grade, "Aprobado"))
                     /\ ~Includes(grade, "No aprobad")
         IN  IF ~isApprovedGrade
                 THEN [threw |-> FALSE, kept |-> FALSE]
                 ELSE [threw |-> FALSE, kept |-> TRUE,
                       entry |-> [courseCode |-> courseTextRegex[item.courseText],
                                  type |-> typesMap[groups[1]],
                                  date |-> parseDate(groups[3])]]

\* The then-callback of parseAcademicHistory: map over the items in order (the
\* first item that throws ends it), then the filter that drops the nulls.
RECURSIVE ParseHistoryItems(_, _)
ParseHistoryItems(items, acc) ==
    IF items = <<>> THEN [threw |-> FALSE, error |-> NONE, value |-> acc]
    ELSE LET r == ParseHistoryItem(Head(items))
         IN  IF r.threw THEN [threw |-> TRUE, error |-> r.error, value |-> <<>>]
             ELSE ParseHistoryItems(Tail(items), IF r.kept THEN Append(acc, r.entry) ELSE acc)

\* courseHistory.map(f), for the two projections the source uses.
RECURSIVE MapCourseCode(_)
MapCourseCode(entries) ==
    IF entries = <<>> THEN <<>> ELSE <<Head(entries).courseCode>> \o MapCourseCode(Tail(entries))

RECURSIVE MapDate(_)
MapDate(entries) ==
    IF entries = <<>> THEN <<>> ELSE <<Head(entries).date>> \o MapDate(Tail(entries))

\* A mutant: signed is built from the SIGNED entries alone.
TranscriptSignedCoursesOnlySigned(coursesHistory) ==
    SetSpread(MapCourseCode(SelectSeq2(coursesHistory, { e \in Range(coursesHistory) : e.type = "SIGNED" })))

\* [...new Set(coursesHistory.map(course => course.courseCode))]
TranscriptSignedCourses(coursesHistory) == SetSpread(MapCourseCode(coursesHistory))

\* coursesHistory.filter(course => course.type === "PASSED").map(course => course.courseCode)
TranscriptPassedCourses(coursesHistory) ==
    MapCourseCode(SelectSeq2(coursesHistory, { e \in Range(coursesHistory) : e.type = "PASSED" }))

\* Insertion of a date into a sorted array, after the dates it is not before.
RECURSIVE InsertDate(_, _)
InsertDate(sorted, d) ==
    IF sorted = <<>> THEN <<d>>
    ELSE IF DateBefore(d, Head(sorted)) THEN <<d>> \o sorted
    ELSE <<Head(sorted)>> \o InsertDate(Tail(sorted), d)

\* dates.sort((a, b) => a - b)
RECURSIVE SortDates(_)
SortDates(dates) ==
    IF dates = <<>> THEN <<>>
    ELSE InsertDate(SortDates(SubSeq(dates, 1, Len(dates) - 1)), dates[Len(dates)])

\* courseHistory.map(course => course.date).sort((a, b) => a - b).map(date => date.getFullYear())[0]
TranscriptStartYear(entries) ==
    LET sorted == SortDates(MapDate(entries))
    IN  IF sorted = <<>> THEN JsUndefined ELSE Num(getFullYear(sorted[1]))

\* filterByKind(kind): the rows of that kind with status "Aprob", as their codes.
RECURSIVE filterByKind(_, _)
filterByKind(rows, kind) ==
    IF rows = <<>> THEN <<>>
    ELSE LET tr == Head(rows)
             rest == filterByKind(Tail(rows), kind)
         IN  IF Trim(tr[1]) = kind /\ Trim(tr[2]) = "Aprob" THEN <<Trim(tr[3])>> \o rest ELSE rest

\* let passedCourses = filterByKind("Final");
PortalPassedCourses(rows) == filterByKind(rows, "Final")

\* [...new Set([...passedCourses, ...filterByKind("Cursada")])]
PortalSignedCourses(rows) ==
    SetSpread(PortalPassedCourses(rows) \o filterByKind(rows, "Cursada"))

\* $(...).find("... tr:last td:first").text() then .split("/")[2]
PortalStartYear(cells) ==
    LET startDate == IF cells = <<>> THEN "" ELSE cells[Len(cells)]
        year == At(Split(startDate), 2)
    IN  IF year = UNDEFINED THEN JsUndefined ELSE Str(year)

HistInit ==
    /\ histAdapter \in {"transcript", "portal"}
    /\ histOp \in {"getPassedCourses", "getStartYear"}
    /\ histContent \in
          CASE histAdapter = "transcript" -> SeqsUpTo(HistoryItems, MaxHistory)
            [] histAdapter = "portal" /\ histOp = "getPassedCourses" ->
                  SeqsUpTo(PortalHistoryRows, MaxHistory)
            [] OTHER -> SeqsUpTo(PortalStartDates, MaxHistory)
    /\ histPc = "fetched"
    /\ courseHistory = <<>>
    /\ histError = NONE
    /\ histResult = Pending
    /\ histLog = <<>>
    /\ ScanIdle
    /\ SysIdle

\* The then-callback of parseAcademicHistory (transcript).
HistParseAcademicHistory ==
    /\ histAdapter = "transcript"
    /\ histPc = "fetched"
    /\ LET r == ParseHistoryItems(histContent, <<>>)
       IN  /\ histPc' = IF r.threw THEN "thrown" ELSE "parsed"
           /\ histError' = r.error
           /\ courseHistory' = r.value
    /\ UNCHANGED <<histAdapter, histOp, histContent, histResult, histLog>>
    /\ UNCHANGED notHistVars

\* The then-callback of the transcript getPassedCourses.
HistTranscriptGetPassedCourses ==
    /\ histAdapter = "transcript"
    /\ histOp = "getPassedCourses"
    /\ histPc = "parsed"
    /\ histPc' = "done"
    /\ histResult' = Resolved([passed |-> TranscriptPassedCourses(courseHistory),
                               signed |-> TranscriptSignedCourses(courseHistory)])
    /\ UNCHANGED <<histAdapter, histOp, histContent, courseHistory, histError, histLog>>
    /\ UNCHANGED notHistVars

\* The then-callback of the transcript getStartYear.
HistTranscriptGetStartYear ==
    /\ histAdapter = "transcript"
    /\ histOp = "getStartYear"
    /\ histPc = "parsed"
    /\ histPc' = "done"
    /\ histResult' = Resolved(TranscriptStartYear(courseHistory))
    /\ UNCHANGED <<histAdapter, histOp, histContent, courseHistory, histError, histLog>>
    /\ UNCHANGED notHistVars

\* The then-callback of the portal getPassedCourses.
HistPortalGetPassedCourses ==
    /\ histAdapter = "portal"
    /\ histOp = "getPassedCourses"
    /\ histPc = "fetched"
    /\ histPc' = "done"
    /\ histResult' = Resolved([passed |-> PortalPassedCourses(histContent),
                               signed |-> PortalSignedCourses(histContent)])
    /\ UNCHANGED <<histAdapter, histOp, histContent, courseHistory, histError, histLog>>
    /\ UNCHANGED notHistVars

\* The then-callback of the portal getStartYear.
HistPortalGetStartYear ==
    /\ histAdapter = "portal"
    /\ histOp = "getStartYear"
    /\ histPc = "fetched"
    /\ histPc' = "done"
    /\ histResult' = Resolved(PortalStartYear(histContent))
    /\ UNCHANGED <<histAdapter, histOp, histContent, courseHistory, histError, histLog>>
    /\ UNCHANGED notHistVars

\* The catch-callback: trackError(e, name), then `throw e` (getPassedCourses)
\* or `return null` (getStartYear).
HistCatch ==
    /\ histPc = "thrown"
    /\ histPc' = "done"
    /\ histLog' = Append(histLog, trackError(histError, histOp))
    /\ histResult' = IF histOp = "getStartYear" THEN Resolved(JsNull) ELSE Rejected(histError)
    /\ UNCHANGED <<histAdapter, histOp, histContent, courseHistory, histError>>
    /\ UNCHANGED notHistVars

HistNext ==
    \/ HistParseAcademicHistory
    \/ HistTranscriptGetPassedCourses
    \/ HistTranscriptGetStartYear
    \/ HistPortalGetPassedCourses
    \/ HistPortalGetStartYear
    \/ HistCatch

SpecHistory == HistInit /\ [][HistNext]_vars

-----------------------------------------------------------------------------
(* Claims about getPassedCourses (checked under SpecHistory) *)

PassedCoursesResolved ==
    /\ histOp = "getPassedCourses"
    /\ histResult.state = "resolved"

NoDuplicates(seq) == \A a, b \in 1..Len(seq) : a # b => seq[a] # seq[b]

Occurrences(seq, x) == Cardinality({ n \in 1..Len(seq) : seq[n] = x })

\* The approved rows of the input that count as passed, resp. signed, for the
\* course code: retained PASSED / SIGNED entries in the transcript, approved
\* Final / Cursada rows in the portal.
RowsOfKind(code, transcriptType, portalKind) ==
    IF histAdapter = "transcript"
        THEN { n \in 1..Len(courseHistory) :
                 courseHistory[n].courseCode = code /\ courseHistory[n].type = transcriptType }
        ELSE { n \in 1..Len(histContent) :
                 /\ Trim(histContent[n][1]) = portalKind
                 /\ Trim(histContent[n][2]) = "Aprob"
                 /\ Trim(histContent[n][3]) = code }

CourseCodes == {"950701", "950702"}

\* C9: in both adapters every course code of the returned passed list also
\* occurs in the returned signed list.
C9_PassedSubsetOfSigned ==
    PassedCoursesResolved =>
        Range(histResult.value.passed) \subseteq Range(histResult.value.signed)

\* C9 witness: getPassedCourses resolved for a history in which some course
\* is passed (PASSED / Final) but never signed (SIGNED / Cursada).
C9_Witness ==
    /\ PassedCoursesResolved
    /\ \E code \in CourseCodes :
           /\ RowsOfKind(code, "PASSED", "Final") # {}
           /\ RowsOfKind(code, "SIGNED", "Cursada") = {}

\* C10 (as stated): no course code occurs more than once in signed and none
\* occurs more than once in passed.
C10_SignedAndPassedAreSets ==
    PassedCoursesResolved =>
        /\ NoDuplicates(histResult.value.signed)
        /\ NoDuplicates(histResult.value.passed)

\* C10 (as amended): in both adapters no course code occurs more than once in
\* signed; passed is not deduplicated: it holds a course code once for each
\* approved PASSED (transcript) or approved Final (portal) row of that course.
C10_SignedIsSetPassedPerRow ==
    PassedCoursesResolved =>
        /\ NoDuplicates(histResult.value.signed)
        /\ \A code \in CourseCodes :
               Occurrences(histResult.value.passed, code)
                   = Cardinality(RowsOfKind(code, "PASSED", "Final"))

\* C10 witness: a course with an approved SIGNED / Cursada row and two
\* approved PASSED / Final rows: signed holds it once, passed twice.
C10_Witness ==
    /\ PassedCoursesResolved
    /\ \E code \in CourseCodes :
           /\ RowsOfKind(code, "SIGNED", "Cursada") # {}
           /\ Cardinality(RowsOfKind(code, "PASSED", "Final")) = 2
           /\ Occurrences(histResult.value.signed, code) = 1
           /\ Occurrences(histResult.value.passed, code) = 2

-----------------------------------------------------------------------------
(* The adapters as promise chains over the fetch cache: pages and callbacks *)

PublicOperations ==
    { "getStartYear", "getStudentId", "getClassSchedules", "getPassedCourses",
      "getProfessorClassesFromSurveys", "getTakenSurveys" }

HistoryUrl ==
    "/autogestion/grado/historia_academica/?checks=PromocionA,RegularidadA,RegularidadR,RegularidadU,EnCurso,ExamenA,ExamenR,ExamenU,EquivalenciaA,EquivalenciaR,AprobResA,CreditosA,&modo=anio&param_modo=&e_cu=A&e_ex=A&e_re=A"

\* The url the operation fetches first ("" when it fetches nothing).
UrlOf(ad, op) ==
    IF ad = "portal"
        THEN CASE op = "getStartYear" -> "/alu/libreta.do"
               [] op \in {"getStudentId", "getClassSchedules"} -> "/alu/inscurcomp.do"
               [] op = "getPassedCourses" -> "/alu/hist.do"
               [] OTHER -> "/alu/encdoc.do"
        ELSE CASE op = "getStudentId" -> "/autogestion/grado/plan_estudio/generar_pdf"
               [] op = "getClassSchedules" -> "/autogestion/grado/calendario/descargar_comprobante"
               [] op \in {"getStartYear", "getPassedCourses"} -> HistoryUrl
               [] OTHER -> ""

SurveyPopupUrl == "/alu/encdocpop.do"

\* A response body: a text ($.ajax) or the flattened items of a pdf.
Text(t) == [text |-> t]
Items(seq) == [items |-> seq]

\* CACHED_PAGE_CONTENTS[url] of a url never stored.
NotCached == JsUndefined

\* if (CACHED_PAGE_CONTENTS[url]): undefined and "" are falsy, an array (even an
\* empty one) and a non-empty text are truthy.
Truthy(v) == IF "text" \in DOMAIN v THEN v.text # "" ELSE "items" \in DOMAIN v

OneRecordDocument ==
    HeaderContents \o <<"12.345-6 Jane Doe">> \o ColumnContents
        \o <<"950701", "Fisica I", "1er Cuat 2021", "z1154", "Campus", "2", "Lu(n)1:5 Mi(n)0:2">>
        \o <<TrailingMarker>>

\* What the server may answer to a request for the url.
Responses(url) ==
    CASE url = "/alu/libreta.do" ->
            { Text("libreta: 12/03/2015"), Text("libreta: sin filas"), Text("") }
      [] url = "/alu/inscurcomp.do" ->
            { Text("inscurcomp: 149.123-4"), Text("inscurcomp: sesion expirada"),
              Text("inscurcomp: sin legajo"), Text("") }
      [] url = "/alu/hist.do" ->
            { Text("hist: Final y Cursada 950701"), Text("hist: dos Finales 950701") }
      [] url = "/alu/encdoc.do" ->
            { Text("encdoc: dos completas"), Text("encdoc: una completa, una pendiente"),
              Text("encdoc: tipo invalido"), Text("encdoc: onclick invalido") }
      [] url = SurveyPopupUrl ->
            { Text("popup: porcentaje 75"), Text("popup: texto en blanco"),
              Text("popup: opcion desconocida") }
      [] url = "/autogestion/grado/plan_estudio/generar_pdf" ->
            { Items(<<"Plan de estudio", "Legajo:", "1491234">>), Items(<<"Plan de estudio">>),
              Items(<<"Legajo:">>) }
      [] url = "/autogestion/grado/calendario/descargar_comprobante" ->
            { Items(<<"">>), Items(OneRecordDocument),
              Items(SubSeq(OneRecordDocument, 1, Len(OneRecordDocument) - 1)) }
      [] url = HistoryUrl ->
            { Text("{cod: 1, info_historia: Regularidad y Examen 950701}"),
              Text("{cod: 1, info_historia: vacia}"),
              Text("{cod: 1, info_historia: fila invalida}"),
              Text("{cod: 0}"), Text("") }
      [] OTHER -> {}

\* What $.ajax / pdfjsLib reject with.
FetchError == [msg |-> "fetch failed"]

\* new LoggedOutError("Couldn't get studentId because the user has been logged out.")
LoggedOutError == [msg |-> "Couldn't get studentId because the user has been logged out.",
                   class |-> "LoggedOutError"]

\* A mutant: no error counts as a LoggedOutError.
NeverLoggedOutError(e) == FALSE

\* e instanceof LoggedOutError
IsLoggedOutError(e) == "class" \in DOMAIN e /\ e.class = "LoggedOutError"

Threw(e) == [threw |-> TRUE, error |-> e, value |-> NONE]
Returned(v) == [threw |-> FALSE, error |-> NONE, value |-> v]

(* ---- portal: /alu/libreta.do, /alu/inscurcomp.do, /alu/hist.do ---- *)

\* $(responseText).find(".std-canvas table:first tbody tr:last td:first"): the
\* first cells of the libreta table's rows.
LibretaCells(t) == IF t = "libreta: 12/03/2015" THEN <<"01/08/2009", "12/03/2015">> ELSE <<>>

\* $(responseText).find("div.center p.mask1 span").text()
StudentIdText(t) == IF t = "inscurcomp: 149.123-4" THEN "149.123-4" ELSE ""

\* $(responseText).find("div.std-canvas div").text().trim()
CanvasDivText(t) ==
    CASE t = "inscurcomp: sesion expirada" -> "La sesión ha expirado"
      [] t = "inscurcomp: sin legajo" -> "Error interno"
      [] OTHER -> ""

\* The then-callback of the portal getStudentId.
PortalStudentId(t) ==
    LET studentId == StudentIdText(t)
    IN  IF studentId = ""
            THEN IF CanvasDivText(t) = "La sesión ha expirado"
                     THEN Threw(LoggedOutError)
                     ELSE Threw([msg |-> "Couldn't get studentId from responseText", arg |-> t])
            ELSE Returned(studentId)

\* The rows (tr:not(:first)) of the inscurcomp table: classCode, schedulesStr,
\* the time span's text and the other cells.
InscriptionRows(t) ==
    CASE t = "inscurcomp: 149.123-4" ->
            << [classCode |-> "Z1154", schedulesStr |-> "Lu(n)1:5 Mi(n)0:2", time |-> "(2019 Cuat 2/2)",
                courseName |-> "Fisica I", courseCode |-> "950701", branch |-> "Campus"],
               [classCode |-> "RECH", schedulesStr |-> "INSCRIPCIÓN RECHAZADA", time |-> "(2019 Anual)",
                courseName |-> "Quimica", courseCode |-> "950702", branch |-> "Medrano"] >>
      [] t = "inscurcomp: sin legajo" ->
            << [classCode |-> "K1001", schedulesStr |-> "Ma(t)2:4", time |-> "(Cuat 2019)",
                courseName |-> "Quimica", courseCode |-> "950702", branch |-> "Medrano"] >>
      [] OTHER -> <<>>

\* .replace("(", "").replace(")", "").trim() and the groups of
\* /^(\d{4}) (Cuat (1|2)\/2|Anual|     1\/1)$/ for the times that match.
PortalTimeRegex ==
    ( "(2019 Cuat 2/2)" :> <<"2019", "Cuat 2/2", "2">> ) @@
    ( "(2019 Anual)" :> <<"2019", "Anual", UNDEFINED>> )

\* The map callback of the portal getClassSchedules on one row: the outcomes.
PortalClassScheduleOfRow(tr) ==
    IF tr.classCode = "RECH" \/ tr.schedulesStr = "INSCRIPCIÓN RECHAZADA" THEN { Returned(JsNull) }
    ELSE IF tr.schedulesStr = "INSCRIPCIÓN ACEPTADA" THEN { Returned(JsNull) }
    ELSE IF tr.time = "(Opcional)" THEN { Returned(JsNull) }
    ELSE IF tr.time \notin DOMAIN PortalTimeRegex
        THEN { Threw([msg |-> "Class time couldn't be parsed", arg |-> tr.time]) }
    ELSE LET groups == PortalTimeRegex[tr.time]
         IN  { IF o.threw THEN Threw(TypeError)
               ELSE Returned([year |-> ParseInt(groups[1]),
                              quarter |-> IF groups[2] \in {"Anual", "     1/1"} THEN "A" ELSE PlusC(groups[3]),
                              courseName |-> tr.courseName, classCode |-> tr.classCode,
                              courseCode |-> tr.courseCode,
                              branch |-> ReplaceSpace(ToUpperCase(tr.branch)),
                              schedules |-> o.value]) :
                   o \in getSchedulesFromString(tr.schedulesStr) }

\* The then-callback of the portal getClassSchedules: map, then filter the nulls.
RECURSIVE PortalClassSchedules(_, _)
PortalClassSchedules(rows, acc) ==
    IF rows = <<>> THEN { Returned(acc) }
    ELSE UNION { IF o.threw THEN { o }
                 ELSE PortalClassSchedules(Tail(rows), IF o.value = JsNull THEN acc ELSE Append(acc, o.value)) :
                     o \in PortalClassScheduleOfRow(Head(rows)) }

\* The rows (tr:not(:first)) of the hist table: cells 0, 1 and 3.
HistTableRows(t) ==
    CASE t = "hist: Final y Cursada 950701" ->
            << <<"Final", "Aprob", "950701">>, <<"Cursada", "Aprob", "950701">> >>
      [] t = "hist: dos Finales 950701" ->
            << <<" Final ", "Aprob", "950701">>, <<"Final", "Aprob", "950701">> >>
      [] OTHER -> <<>>

(* ---- portal: /alu/encdoc.do and /alu/encdocpop.do ---- *)

\* The .tab elements of the surveys page: the text of the p before each, the
\* text of the p inside it ("classCode courseCode ...") and its table rows
\* (professor name, role, whether td:eq(4) holds an img, the onclick of the link).
SurveyTabs(t) ==
    CASE t = "encdoc: dos completas" ->
            << [header |-> "ENCUESTA_DOCENTE 2019 1er C", classTaken |-> "Z1154 950701",
                rows |-> << [professorName |-> "PEREZ, JUAN", professorRole |-> "TITULAR",
                             isCompleted |-> TRUE, onclick |-> "fn_encuesta(51,36218,52143)"],
                            [professorName |-> "GOMEZ, ANA", professorRole |-> "JEFE DE TP",
                             isCompleted |-> TRUE, onclick |-> "fn_encuesta(51,36218,52144)"] >>] >>
      [] t = "encdoc: una completa, una pendiente" ->
            << [header |-> "ENCUESTA_AUXILIARES 2019 Anual", classTaken |-> "K1001 950702",
                rows |-> << [professorName |-> "PEREZ, JUAN", professorRole |-> "AYUDANTE",
                             isCompleted |-> FALSE, onclick |-> "fn_encuesta(51,36218,52143)"],
                            [professorName |-> "GOMEZ, ANA", professorRole |-> "AYUDANTE",
                             isCompleted |-> TRUE, onclick |-> "fn_encuesta(51,36218,52144)"] >>] >>
      [] t = "encdoc: tipo invalido" ->
            << [header |-> "ENCUESTA_GRADUADOS 2019", classTaken |-> "Z1154 950701",
                rows |-> << [professorName |-> "PEREZ, JUAN", professorRole |-> "TITULAR",
                             isCompleted |-> TRUE, onclick |-> "fn_encuesta(51,36218,52143)"] >>] >>
      [] t = "encdoc: onclick invalido" ->
            << [header |-> "ENCUESTA_DOCENTE 2019 1er C", classTaken |-> "Z1154 950701",
                rows |-> << [professorName |-> "PEREZ, JUAN", professorRole |-> "TITULAR",
                             isCompleted |-> TRUE, onclick |-> "fn_encuesta(51,36218,52143)"],
                            [professorName |-> "GOMEZ, ANA", professorRole |-> "JEFE DE TP",
                             isCompleted |-> TRUE, onclick |-> UNDEFINED] >>] >>
      [] OTHER -> <<>>

\* typeStr (the header lower-cased, without "encuesta", "_" made a space,
\* trimmed) and the groups of /^(docente|auxiliares) (\d{4}) (a|1|2)(nual|er c|do c)$/g
\* for the headers whose typeStr matches.
SurveyTypeRegex ==
    ( "ENCUESTA_DOCENTE 2019 1er C" :> <<"docente", "2019", "1", "er c">> ) @@
    ( "ENCUESTA_AUXILIARES 2019 Anual" :> <<"auxiliares", "2019", "a", "nual">> )

\* groups[1].toUpperCase().replace("ARES", "AR")
SurveyKindOf(g) == IF g = "docente" THEN "DOCENTE" ELSE "AUXILIAR"

\* classTaken.split(" ")
SplitClassTaken(t) ==
    CASE t = "Z1154 950701" -> <<"Z1154", "950701">>
      [] t = "K1001 950702" -> <<"K1001", "950702">>
      [] OTHER -> <<t>>

RECURSIVE MapSurveyRows(_, _, _)
\* $(elem).find("table tr").toArray().filter(...).map(...) of one tab
MapSurveyRows(rows, onlyCompleted, common) ==
    IF rows = <<>> THEN <<>>
    ELSE LET tr == Head(rows)
             rest == MapSurveyRows(Tail(rows), onlyCompleted, common)
         IN  IF ~onlyCompleted \/ tr.isCompleted
                 THEN << [tr |-> tr,
                          surveyKind |-> common.surveyKind, year |-> common.year,
                          quarter |-> common.quarter, classCode |-> common.classCode,
                          courseCode |-> common.courseCode,
                          professorName |-> tr.professorName,
                          professorRole |-> tr.professorRole] >> \o rest
                 ELSE rest

RECURSIVE FlatMapSurveyTabs(_, _, _)
\* The then-callback of parseMetadataFromSurveyRows: flatMap over the tabs.
FlatMapSurveyTabs(tabs, onlyCompleted, acc) ==
    IF tabs = <<>> THEN Returned(acc)
    ELSE LET elem == Head(tabs)
         IN  IF elem.header \notin DOMAIN SurveyTypeRegex
                 THEN Threw([msg |-> "Type couldn't be parsed", arg |-> elem.header])
                 ELSE LET groups == SurveyTypeRegex[elem.header]
                          classTaken == SplitClassTaken(elem.classTaken)
                          common == [surveyKind |-> SurveyKindOf(groups[1]),
                                     year |-> ParseInt(groups[2]),
                                     quarter |-> IF groups[3] = "a" THEN "A" ELSE PlusC(groups[3]),
                                     classCode |-> At(classTaken, 0),
                                     courseCode |-> At(classTaken, 1)]
                      IN  FlatMapSurveyTabs(Tail(tabs), onlyCompleted,
                              acc \o MapSurveyRows(elem.rows, onlyCompleted, common))

RECURSIVE MapProfessorClasses(_)
\* The then-callback of the portal getProfessorClassesFromSurveys.
MapProfessorClasses(surveysMetadata) ==
    IF surveysMetadata = <<>> THEN <<>>
    ELSE LET m == Head(surveysMetadata)
         IN  << [year |-> m.year, quarter |-> m.quarter, classCode |-> m.classCode,
                 courseCode |-> m.courseCode,
                 professors |-> << [name |-> m.professorName, kind |-> m.surveyKind,
                                    role |-> m.professorRole] >>] >>
                 \o MapProfessorClasses(Tail(surveysMetadata))

\* /^if\(fn_encuesta\((\d+),(\d+),(\d+),'(.*)','(.*)'\)\){return jslib_submit/.exec(jsOnClick):
\* whether it matches (an absent link gives undefined, which does not).
OnclickMatches(jsOnClick) ==
    jsOnClick \in {"fn_encuesta(51,36218,52143)", "fn_encuesta(51,36218,52144)"}

\* The rows of the survey popup: the question, the selected option's text, the
\* text of the option with value 2, and the textarea of the next row.
AnswerRows(t) ==
    CASE t = "popup: porcentaje 75" ->
            << [question |-> "Claridad", comboValue |-> "75", secondOption |-> "50%", textarea |-> ""],
               [question |-> "Puntualidad", comboValue |-> "", secondOption |-> "50%", textarea |-> ""],
               [question |-> "Observaciones", comboValue |-> "Opina", secondOption |-> "No Opina",
                textarea |-> "Muy claro"],
               [question |-> "Asistencia", comboValue |-> "", secondOption |-> "No", textarea |-> ""] >>
      [] t = "popup: texto en blanco" ->
            << [question |-> "Observaciones", comboValue |-> "Opina", secondOption |-> "No Opina",
                textarea |-> ""],
               [question |-> "Claridad", comboValue |-> "No contesta", secondOption |-> "50%",
                textarea |-> ""] >>
      [] t = "popup: opcion desconocida" ->
            << [question |-> "Claridad", comboValue |-> "75", secondOption |-> "50%", textarea |-> ""],
               [question |-> "Asistencia", comboValue |-> "Si", secondOption |-> "No", textarea |-> ""] >>
      [] OTHER -> <<>>

\* .toLowerCase().trim() of an option's text
LowerCaseOption(t) == IF t = "No Opina" THEN "no opina" ELSE IF t = "No" THEN "no" ELSE t

\* secondOption.endsWith("%")
EndsWithPercent(t) == t \in {"50%"}

\* parseInt(comboValue), NaN being not a number
ParseIntOption(t) == IF t = "75" THEN Num(75) ELSE [nan |-> TRUE]

\* A mutant: the second option is examined before the selected option.
AnswerOfRowSchemaFirst(tr) ==
    LET secondOption == LowerCaseOption(tr.secondOption)
    IN  IF secondOption # "no opina" /\ ~EndsWithPercent(secondOption)
            THEN Threw([msg |-> "Couldn't parse second option", arg |-> secondOption])
        ELSE IF tr.comboValue = "" THEN Returned([false |-> TRUE])
        ELSE IF secondOption = "no opina"
            THEN Returned([question |-> tr.question, type |-> "TEXT",
                           value |-> IF tr.textarea = "" THEN JsNull ELSE Str(tr.textarea)])
        ELSE Returned([question |-> tr.question, type |-> "PERCENTAGE",
                       value |-> IF ParseIntOption(tr.comboValue) = [nan |-> TRUE]
                                     THEN JsNull ELSE ParseIntOption(tr.comboValue)])

\* The map callback of getAnswersFromSurvey on one row: false (dropped), the
\* answer, or a throw.
AnswerOfRow(tr) ==
    IF tr.comboValue = "" THEN Returned([false |-> TRUE])
    ELSE LET secondOption == LowerCaseOption(tr.secondOption)
         IN  IF secondOption = "no opina"
                 THEN Returned([question |-> tr.question, type |-> "TEXT",
                                value |-> IF tr.textarea = "" THEN JsNull ELSE Str(tr.textarea)])
             ELSE IF EndsWithPercent(secondOption)
                 THEN Returned([question |-> tr.question, type |-> "PERCENTAGE",
                                value |-> IF ParseIntOption(tr.comboValue) = [nan |-> TRUE]
                                              THEN JsNull ELSE ParseIntOption(tr.comboValue)])
             ELSE Threw([msg |-> "Couldn't parse second option", arg |-> secondOption])

RECURSIVE AnswersFromSurvey(_, _)
\* The then-callback of getAnswersFromSurvey: map, then filter.
AnswersFromSurvey(rows, acc) ==
    IF rows = <<>> THEN Returned(acc)
    ELSE LET o == AnswerOfRow(Head(rows))
         IN  IF o.threw THEN o
             ELSE AnswersFromSurvey(Tail(rows),
                      IF o.value = [false |-> TRUE] THEN acc ELSE Append(acc, o.value))

\* A mutant: every entry is built from the last row's metadata.
TakenSurveyOfLastRow(surveysMetadata, k, answers) ==
    LET surveyMetadata == surveysMetadata[Len(surveysMetadata)]
    IN  [surveyKind |-> surveyMetadata.surveyKind, year |-> surveyMetadata.year,
         quarter |-> surveyMetadata.quarter, classCode |-> surveyMetadata.classCode,
         courseCode |-> surveyMetadata.courseCode,
         professorName |-> surveyMetadata.professorName,
         professorRole |-> surveyMetadata.professorRole,
         surveyFields |-> answers]

\* getAnswersFromSurvey(jsOnClick).then(answers => { return {...}; }) for row k
TakenSurvey(surveysMetadata, k, answers) ==
    LET surveyMetadata == surveysMetadata[k]
    IN  [surveyKind |-> surveyMetadata.surveyKind, year |-> surveyMetadata.year,
         quarter |-> surveyMetadata.quarter, classCode |-> surveyMetadata.classCode,
         courseCode |-> surveyMetadata.courseCode,
         professorName |-> surveyMetadata.professorName,
         professorRole |-> surveyMetadata.professorRole,
         surveyFields |-> answers]

(* ---- transcript ---- *)

\* fetchAjaxPageContents: JSON.parse, the cod test, the scripts filtered by
\* info id; the content, or what is thrown.
AjaxPageContents(t) ==
    CASE t = "" -> Threw([msg |-> "SyntaxError"])
      [] t = "{cod: 0}" -> Threw([msg |-> "Invalid ajax contents", arg |-> t])
      [] OTHER -> Returned(Text(t))

\* $(responseText).find(".catedra_nombre"): the items of the history content.
CatedraItems(t) ==
    CASE t = "{cod: 1, info_historia: Regularidad y Examen 950701}" ->
            << [courseText |-> "Fisica I (950701)",
                historyRow |-> "Examen - 7 (Siete) Aprobado 12/12/2019 - Detalle"],
               [courseText |-> "Fisica I (950701)",
                historyRow |-> "Regularidad - 8 (Ocho) Aprobado 10/07/2019 - Detalle"] >>
      [] t = "{cod: 1, info_historia: fila invalida}" ->
            << [courseText |-> "Quimica (950702)", historyRow |-> "Regularidad 8 Aprobado"] >>
      [] OTHER -> <<>>

\* parseAcademicHistory on the response text.
AcademicHistory(t) ==
    LET page == AjaxPageContents(t)
    IN  IF page.threw THEN page
        ELSE LET r == ParseHistoryItems(CatedraItems(page.value.text), <<>>)
             IN  IF r.threw THEN Threw(r.error) ELSE Returned(r.value)

\* contents.indexOf("Legajo:"), counted from 0; -1 when absent
RECURSIVE IndexOf(_, _, _)
IndexOf(c, token, from) ==
    IF from >= Len(c) THEN -1
    ELSE IF c[from + 1] = token THEN from
    ELSE IndexOf(c, token, from + 1)

\* parseInt(studentId.slice(0, -1)).toLocaleString("es-AR") + "-" + studentId.slice(-1)
FormatStudentId(t) == IF t = "1491234" THEN "149.123-4" ELSE "NaN-"

\* The then-callback of the transcript getStudentId.
TranscriptStudentId(c) ==
    LET index == IndexOf(c, "Legajo:", 0)
    IN  IF index = -1 THEN Threw([msg |-> "Couldn't find studentId in pdfContents", contents |-> c])
        ELSE IF At(c, index + 1) = UNDEFINED THEN Threw(TypeError)
        ELSE Returned(FormatStudentId(Trim(At(c, index + 1))))

RECURSIVE ScanLoop(_, _, _)
\* The while loop of the transcript getClassSchedules, run to its end.
ScanLoop(c, k, acc) ==
    IF LoopEnds(c, k) THEN { Returned(acc) }
    ELSE UNION { IF o.threw THEN { Threw(o.error) } ELSE ScanLoop(c, o.i, Append(acc, o.record)) :
                     o \in RecordOutcomes(c, k) }

\* The then-callback of the transcript getClassSchedules, run to its end.
TranscriptClassSchedules(c) ==
    IF IsEmptyPdf(c) THEN { Returned(<<>>) }
    ELSE LET header == validateExpectedContents(c, 0, HeaderContents)
         IN  IF header.threw THEN { Threw(header.error) }
             ELSE IF ~StudentIdAndNameMatches(At(c, header.i))
                 THEN { Threw(ParseError("Couldn't parse studentIdAndName", At(c, header.i), c)) }
             ELSE LET columns == validateExpectedContents(c, header.i + 1, ColumnContents)
                  IN  IF columns.threw THEN { Threw(columns.error) }
                      ELSE ScanLoop(c, columns.i, <<>>)

-----------------------------------------------------------------------------
(* The adapters: each public operation as a promise chain over the fetch cache *)

\* How many calls to public operations one behaviour makes.
MaxCalls == 2

\* An array as an operation's value.
Arr(seq) == [array |-> seq]

Adapters == {"portal", "transcript"}

Urls == { UrlOf(ad, op) : ad \in Adapters, op \in PublicOperations } \ {""}

\* How a request may end: with one of the contents, or rejected.
ResponseOutcomes(url) == { Returned(v) : v \in Responses(url) } \cup { Threw(FetchError) }

\* A mutant: the catch-callback of every operation returns null.
CatchReturnsNull(op, e) == Resolved(JsNull)

\* What the promise of the operation settles with once e was thrown in its
\* chain: the catch-callbacks `throw e`, getStartYear's does `return null`.
Catch(op, e) == IF op = "getStartYear" THEN Resolved(JsNull) ELSE Rejected(e)

\* The end of a chain in which e was thrown, trackError having been called
\* with each of the names.
Failed(op, e, names) ==
    [result |-> Catch(op, e), error |-> e,
     logged |-> [k \in 1..Len(names) |-> trackError(e, names[k])],
     surveysMetadata |-> <<>>, issued |-> 0]

\* The end of a chain in which nothing was thrown.
Succeeded(v) ==
    [result |-> Resolved(v), error |-> NONE, logged |-> <<>>,
     surveysMetadata |-> <<>>, issued |-> 0]

\* parseMetadataFromSurveyRows(onlyCompleted), up to its catch-callback.
parseMetadataFromSurveyRows(input, onlyCompleted) ==
    IF input.threw THEN input
    ELSE FlatMapSurveyTabs(SurveyTabs(input.value.text), onlyCompleted, <<>>)

\* The chain of a portal operation on what getPageContents settled with: the
\* ways it may end.
PortalChain(op, input) ==
    CASE op = "getStartYear" ->
            { IF input.threw THEN Failed(op, input.error, <<op>>)
              ELSE Succeeded(PortalStartYear(LibretaCells(input.value.text))) }
      [] op = "getStudentId" ->
            LET o == IF input.threw THEN input ELSE PortalStudentId(input.value.text)
            IN  { IF o.threw
                      THEN Failed(op, o.error, IF IsLoggedOutError(o.error) THEN <<>> ELSE <<op>>)
                      ELSE Succeeded(Str(o.value)) }
      [] op = "getClassSchedules" ->
            { IF o.threw THEN Failed(op, o.error, <<op>>) ELSE Succeeded(Arr(o.value)) :
                  o \in IF input.threw THEN {input}
                        ELSE PortalClassSchedules(InscriptionRows(input.value.text), <<>>) }
      [] op = "getPassedCourses" ->
            { IF input.threw THEN Failed(op, input.error, <<op>>)
              ELSE Succeeded([passed |-> PortalPassedCourses(HistTableRows(input.value.text)),
                              signed |-> PortalSignedCourses(HistTableRows(input.value.text))]) }
      [] op = "getProfessorClassesFromSurveys" ->
            LET m == parseMetadataFromSurveyRows(input, FALSE)
            IN  { IF m.threw THEN Failed(op, m.error, <<"parseMetadataFromSurveyRows">>)
                  ELSE Succeeded(Arr(MapProfessorClasses(m.value))) }
      [] op = "getTakenSurveys" ->
            LET m == parseMetadataFromSurveyRows(input, TRUE)
            IN  IF m.threw
                    THEN { Failed(op, m.error, <<"parseMetadataFromSurveyRows", op>>) }
                    ELSE LET n == Len(m.value)
                             unmatched == { k \in 1..n : ~OnclickMatches(m.value[k].tr.onclick) }
                         IN  IF unmatched # {}
                                 THEN { [Failed(op, TypeError, <<op>>) EXCEPT
                                            !.surveysMetadata = m.value,
                                            !.issued = (CHOOSE k \in unmatched :
                                                           \A j \in unmatched : k <= j) - 1] }
                             ELSE IF n = 0 THEN { Succeeded(Arr(<<>>)) }
                             ELSE { [result |-> Pending, error |-> NONE, logged |-> <<>>,
                                     surveysMetadata |-> m.value, issued |-> n] }

\* The chain of a transcript operation on what fetchPageContents /
\* fetchPdfContents settled with: the ways it may end.
TranscriptChain(op, input) ==
    CASE op = "getStudentId" ->
            LET o == IF input.threw THEN input ELSE TranscriptStudentId(input.value.items)
            IN  { IF o.threw THEN Failed(op, o.error, <<op>>) ELSE Succeeded(Str(o.value)) }
      [] op = "getClassSchedules" ->
            { IF o.threw THEN Failed(op, o.error, <<op>>) ELSE Succeeded(Arr(o.value)) :
                  o \in IF input.threw THEN {input}
                        ELSE TranscriptClassSchedules(input.value.items) }
      [] op = "getStartYear" ->
            LET o == IF input.threw THEN input ELSE AcademicHistory(input.value.text)
            IN  { IF o.threw THEN Failed(op, o.error, <<op>>)
                  ELSE Succeeded(TranscriptStartYear(o.value)) }
      [] op = "getPassedCourses" ->
            LET o == IF input.threw THEN input ELSE AcademicHistory(input.value.text)
            IN  { IF o.threw THEN Failed(op, o.error, <<op>>)
                  ELSE Succeeded([passed |-> TranscriptPassedCourses(o.value),
                                  signed |-> TranscriptSignedCourses(o.value)]) }
      [] OTHER -> { Succeeded(Arr(<<>>)) }

Chain(ad, op, input) ==
    IF ad = "portal" THEN PortalChain(op, input) ELSE TranscriptChain(op, input)

\* Promise.all(surveysMetadata.map(...)) once every answer is there.
PromiseAll(surveysMetadata, answers) ==
    [k \in 1..Len(surveysMetadata) |-> TakenSurvey(surveysMetadata, k, answers[k].value)]

\* A request: its url, the call that issued it, the survey row it is for (0
\* for a page fetch), how it ended (NONE while in flight) and, for a survey
\* row, its place in the order the call's rows were answered. Two requests
\* of one behaviour differ in their call or their row.
Request(url, c, row) == [url |-> url, call |-> c, row |-> row, response |-> NONE, order |-> 0]

InFlight(r) == r.response = NONE

Init ==
    /\ adapter \in Adapters
    /\ CACHED_PAGE_CONTENTS = [url \in Urls |-> NotCached]
    /\ calls = <<>>
    /\ requests = {}
    /\ logMessages = EmptyBag
    /\ ScanIdle
    /\ HistIdle

\* The calls once the chain of call c, started on input, has ended as out.
CallsAfterChain(c, input, out) ==
    [calls EXCEPT ![c] =
        [@ EXCEPT !.pc = IF out.result = Pending THEN "awaitingAll" ELSE "settled",
                  !.input = input,
                  !.error = out.error,
                  !.result = out.result,
                  !.logged = out.logged,
                  !.surveysMetadata = out.surveysMetadata,
                  !.answers = [k \in 1..out.issued |-> Pending]]]

\* The requests once the chain of call c has issued its $.ajax POSTs.
RequestsAfterChain(reqs, c, out) ==
    reqs \cup { Request(SurveyPopupUrl, c, k) : k \in 1..out.issued }

\* A public operation is called: the cache is read and, unless the url's
\* content is there (and truthy), a request is issued.
Call(op) ==
    /\ Len(calls) < MaxCalls
    /\ LET url == UrlOf(adapter, op)
           c == Len(calls) + 1
           new == [op |-> op, pc |-> "waiting", input |-> NONE, error |-> NONE,
                   result |-> Pending, logged |-> <<>>, surveysMetadata |-> <<>>,
                   answers |-> <<>>]
       IN  IF url = ""
               THEN /\ calls' = Append(calls, [new EXCEPT !.pc = "settled",
                                                          !.result = Resolved(Arr(<<>>))])
                    /\ UNCHANGED requests
           ELSE IF Truthy(CACHED_PAGE_CONTENTS[url])
               THEN /\ calls' = Append(calls, [new EXCEPT !.pc = "ready",
                                                 !.input = Returned(CACHED_PAGE_CONTENTS[url])])
                    /\ UNCHANGED requests
           ELSE /\ calls' = Append(calls, new)
                /\ requests' = requests \cup { Request(url, c, 0) }
    /\ UNCHANGED <<adapter, CACHED_PAGE_CONTENTS, logMessages>>
    /\ UNCHANGED notSysVars

\* The callbacks of a call that found its content in the cache run.
Settle(c) ==
    /\ c \in DOMAIN calls
    /\ calls[c].pc = "ready"
    /\ \E out \in Chain(adapter, calls[c].op, calls[c].input) :
          /\ calls' = CallsAfterChain(c, calls[c].input, out)
          /\ requests' = RequestsAfterChain(requests, c, out)
          /\ logMessages' = logMessages (+) SetToBag(Range(out.logged))
    /\ UNCHANGED <<adapter, CACHED_PAGE_CONTENTS>>
    /\ UNCHANGED notSysVars

\* A page request ends: the content is stored in the cache (when there is
\* one) and the callbacks of the call that issued it run.
Respond(r, o) ==
    /\ r \in requests
    /\ r.row = 0
    /\ InFlight(r)
    /\ o \in ResponseOutcomes(r.url)
    /\ CACHED_PAGE_CONTENTS' =
          IF o.threw THEN CACHED_PAGE_CONTENTS
          ELSE [CACHED_PAGE_CONTENTS EXCEPT ![r.url] = o.value]
    /\ \E out \in Chain(adapter, calls[r.call].op, o) :
          /\ calls' = CallsAfterChain(r.call, o, out)
          /\ requests' = RequestsAfterChain((requests \ {r}) \cup { [r EXCEPT !.response = o] },
                                            r.call, out)
          /\ logMessages' = logMessages (+) SetToBag(Range(out.logged))
    /\ UNCHANGED adapter
    /\ UNCHANGED notSysVars

\* The request for a survey row's answers ends: its promise settles, and with
\* it Promise.all (on the first rejection, or once every row is answered), the
\* catch-callback of getTakenSurveys running on a rejection. A response that
\* comes once the call has settled settles a promise nothing reads: such a
\* step changes no variable and is left to stuttering.
SecondaryRespond(r, o) ==
    /\ r \in requests
    /\ r.row > 0
    /\ InFlight(r)
    /\ calls[r.call].pc = "awaitingAll"
    /\ o \in ResponseOutcomes(SurveyPopupUrl)
    /\ LET c == r.call
           a == IF o.threw THEN o ELSE AnswersFromSurvey(AnswerRows(o.value.text), <<>>)
           answers == [calls[c].answers EXCEPT ![r.row] =
                          IF a.threw THEN Rejected(a.error) ELSE Resolved(Arr(a.value))]
           answered == { q \in requests : q.call = c /\ q.row > 0 /\ ~InFlight(q) }
       IN  /\ requests' = (requests \ {r}) \cup
                              { [r EXCEPT !.response = o, !.order = Cardinality(answered) + 1] }
           /\ IF a.threw
                  THEN /\ calls' = [calls EXCEPT ![c].answers = answers,
                                                 ![c].pc = "settled",
                                                 ![c].error = a.error,
                                                 ![c].result = Catch(calls[c].op, a.error),
                                                 ![c].logged = <<trackError(a.error, calls[c].op)>>]
                       /\ logMessages' = logMessages (+) SetToBag({trackError(a.error, calls[c].op)})
              ELSE IF \A k \in DOMAIN answers : answers[k].state = "resolved"
                  THEN /\ calls' = [calls EXCEPT ![c].answers = answers,
                                                 ![c].pc = "settled",
                                                 ![c].result = Resolved(Arr(PromiseAll(
                                                     calls[c].surveysMetadata, answers)))]
                       /\ UNCHANGED logMessages
              ELSE /\ calls' = [calls EXCEPT ![c].answers = answers]
                   /\ UNCHANGED logMessages
    /\ UNCHANGED <<adapter, CACHED_PAGE_CONTENTS>>
    /\ UNCHANGED notSysVars

Next ==
    \/ \E op \in PublicOperations : Call(op)
    \/ \E c \in DOMAIN calls : Settle(c)
    \/ \E r \in requests : \E o \in ResponseOutcomes(r.url) : Respond(r, o)
    \/ \E r \in requests : \E o \in ResponseOutcomes(SurveyPopupUrl) : SecondaryRespond(r, o)

Spec == Init /\ [][Next]_vars

-----------------------------------------------------------------------------
(* Properties of the adapters *)

Settled(c) == calls[c].pc = "settled"

\* The page requests issued for the url.
PageRequests(url) == { r \in requests : r.row = 0 /\ r.url = url }

\* The requests call c issued for the answers of its row k.
AnswerRequests(c, k) == { r \in requests : r.call = c /\ r.row = k }

\* How many of the messages logged carry the method name.
Logged(methodName) ==
    BagCardinality([m \in { x \in BagToSet(logMessages) : x.methodName = methodName } |->
                       CopiesIn(m, logMessages)])

\* C1: for every url, once a call to the cached fetch has been issued for it,
\* no other call issues a network request for it: at most one page request is
\* ever made per url, whatever the interleaving of calls and responses and
\* whatever the content of the first response.
C1_SecondCallIssuesNoRequest ==
    \A url \in Urls : Cardinality(PageRequests(url)) <= 1

\* The portal getStudentId calls that settled on a page whose student-id
\* element is empty.
EmptyStudentIdCalls ==
    { c \in DOMAIN calls :
          /\ adapter = "portal"
          /\ calls[c].op = "getStudentId"
          /\ Settled(c)
          /\ ~calls[c].input.threw
          /\ StudentIdText(calls[c].input.value.text) = "" }

SessionExpired(c) == CanvasDivText(calls[c].input.value.text) = "La sesión ha expirado"

\* C2: a portal getStudentId on a page with an empty student-id element never
\* resolves; with the session-expired text it is rejected with the
\* LoggedOutError and nothing is logged for it, without that text it is
\* rejected with another error, which is logged under "getStudentId"; the
\* messages logged under "getStudentId" are as many as the calls that failed
\* with an error other than the LoggedOutError.
C2_EmptyStudentIdFails ==
    /\ \A c \in EmptyStudentIdCalls :
          /\ calls[c].result.state = "rejected"
          /\ IF SessionExpired(c)
                 THEN /\ calls[c].result.reason = LoggedOutError
                      /\ calls[c].logged = <<>>
                 ELSE /\ calls[c].result.reason # LoggedOutError
                      /\ calls[c].logged = <<trackError(calls[c].result.reason, "getStudentId")>>
    /\ adapter = "portal" =>
          Logged("getStudentId") =
              Cardinality({ c \in DOMAIN calls :
                                /\ calls[c].op = "getStudentId"
                                /\ Settled(c)
                                /\ calls[c].error # NONE
                                /\ calls[c].error # LoggedOutError })

\* Two calls have settled on an empty student id, one on the session-expired
\* page (nothing logged for it) and one on another page (logged).
C2_Witness ==
    /\ \E c \in EmptyStudentIdCalls :
          SessionExpired(c) /\ calls[c].result = Rejected(LoggedOutError)
    /\ \E c \in EmptyStudentIdCalls : ~SessionExpired(c) /\ calls[c].logged # <<>>
    /\ BagCardinality(logMessages) = 1

\* C3: whenever a public operation of either adapter fails with anything but
\* the session-expired error, a message logMessage(operationName, true, detail)
\* has been logged whose operationName is the name of the operation called.
C3_FailureLoggedUnderOperationName ==
    \A c \in DOMAIN calls :
        (Settled(c) /\ calls[c].error # NONE /\ calls[c].error # LoggedOutError) =>
            BagIn(trackError(calls[c].error, calls[c].op), logMessages)

\* The answer requests of call c that failed, or whose answer rows did not parse.
FailedAnswerRequests(c) ==
    { r \in requests :
          /\ r.call = c
          /\ r.row > 0
          /\ ~InFlight(r)
          /\ \/ r.response.threw
             \/ AnswersFromSurvey(AnswerRows(r.response.value.text), <<>>).threw }

\* Whether the page call c got holds no start date (portal) or no history
\* item (transcript).
EmptyHistory(c) ==
    IF adapter = "portal" THEN LibretaCells(calls[c].input.value.text) = <<>>
    ELSE CatedraItems(calls[c].input.value.text) = <<>>

\* C4, as the specification states it: an operation in which a fetch or a
\* parse step failed has its promise rejected, and getStartYear never
\* resolves with null or undefined.
C4_AllOrNothing ==
    \A c \in DOMAIN calls :
        Settled(c) =>
            /\ calls[c].error # NONE => calls[c].result.state = "rejected"
            /\ calls[c].op = "getStartYear" =>
                  calls[c].result \notin { Resolved(JsNull), Resolved(JsUndefined) }

\* C4, amended: an operation other than getStartYear in which a fetch or a
\* parse step failed is rejected with the error of that step, and
\* getTakenSurveys is rejected once one answer request failed or one answer
\* row did not parse, and resolves only with an entry for every row;
\* getStartYear is never rejected: after a failure it logs the error and
\* resolves with null, and on a page without a start date or a history item
\* it resolves with undefined.
C4_AllOrNothingButStartYear ==
    \A c \in DOMAIN calls :
        /\ (Settled(c) /\ calls[c].op # "getStartYear") =>
              /\ calls[c].error # NONE => calls[c].result = Rejected(calls[c].error)
              /\ (calls[c].input # NONE /\ calls[c].input.threw) =>
                    calls[c].result = Rejected(FetchError)
        /\ ~(calls[c].pc = "awaitingAll" /\ FailedAnswerRequests(c) # {})
        /\ (Settled(c) /\ FailedAnswerRequests(c) # {}) => calls[c].result.state = "rejected"
        /\ (Settled(c) /\ calls[c].op = "getTakenSurveys" /\ calls[c].result.state = "resolved") =>
              /\ Len(calls[c].result.value.array) = Len(calls[c].surveysMetadata)
              /\ \A k \in DOMAIN calls[c].answers : calls[c].answers[k].state = "resolved"
        /\ (Settled(c) /\ calls[c].op = "getStartYear") =>
              /\ calls[c].result.state = "resolved"
              /\ calls[c].error # NONE =>
                    /\ calls[c].result = Resolved(JsNull)
                    /\ calls[c].logged = <<trackError(calls[c].error, "getStartYear")>>
              /\ (calls[c].error = NONE /\ EmptyHistory(c)) =>
                    calls[c].result = Resolved(JsUndefined)

\* A getTakenSurveys was rejected although one of its rows had been answered,
\* and a getStartYear resolved with null after its fetch failed.
C4_Witness ==
    /\ \E c \in DOMAIN calls :
          /\ calls[c].op = "getTakenSurveys"
          /\ calls[c].result.state = "rejected"
          /\ \E k \in DOMAIN calls[c].answers : calls[c].answers[k].state = "resolved"
          /\ \E k \in DOMAIN calls[c].answers : calls[c].answers[k].state = "rejected"
    /\ \E c \in DOMAIN calls :
          /\ calls[c].op = "getStartYear"
          /\ calls[c].input = Threw(FetchError)
          /\ calls[c].result = Resolved(JsNull)

RECURSIVE CompletedRows(_)
\* The rows of the surveys page that carry the completed mark, in page order.
CompletedRows(tabs) ==
    IF tabs = <<>> THEN <<>>
    ELSE SelectSeq(Head(tabs).rows, LAMBDA tr : tr.isCompleted) \o CompletedRows(Tail(tabs))

\* The portal getTakenSurveys calls whose surveys page has arrived.
TakenSurveysCalls ==
    { c \in DOMAIN calls :
          /\ adapter = "portal"
          /\ calls[c].op = "getTakenSurveys"
          /\ calls[c].pc \in {"awaitingAll", "settled"}
          /\ ~calls[c].input.threw }

\* C8: a portal getTakenSurveys never issues two answer requests for one row,
\* has issued exactly one per completed row while it awaits them and when it
\* resolves, and resolves with one entry per completed row in the page's row
\* order, entry k carrying row k's professor and the answers parsed from the
\* response to row k's own request, whatever the order of the responses.
C8_TakenSurveysInRowOrder ==
    \A c \in TakenSurveysCalls :
        LET rows == CompletedRows(SurveyTabs(calls[c].input.value.text))
            surveys == calls[c].result.value.array
        IN  /\ \A r \in requests :
                  r.call = c /\ r.row > 0 =>
                      /\ r.row \in 1..Len(rows)
                      /\ Cardinality(AnswerRequests(c, r.row)) = 1
            /\ (calls[c].pc = "awaitingAll" \/ calls[c].result.state = "resolved") =>
                  \A k \in 1..Len(rows) : Cardinality(AnswerRequests(c, k)) = 1
            /\ calls[c].result.state = "resolved" =>
                  /\ Len(surveys) = Len(rows)
                  /\ \A k \in 1..Len(rows) :
                        LET r == CHOOSE r \in AnswerRequests(c, k) : TRUE
                        IN  /\ surveys[k].professorName = rows[k].professorName
                            /\ surveys[k].professorRole = rows[k].professorRole
                            /\ surveys[k].surveyFields =
                                  Arr(AnswersFromSurvey(
                                      AnswerRows(r.response.value.text), <<>>).value)

\* A getTakenSurveys has resolved with two entries whose rows were answered in
\* the reverse order and with different answers.
C8_Witness ==
    \E c \in TakenSurveysCalls :
        /\ calls[c].result.state = "resolved"
        /\ Len(calls[c].result.value.array) = 2
        /\ \E r \in AnswerRequests(c, 2) : r.order = 1
        /\ calls[c].result.value.array[1].surveyFields
               # calls[c].result.value.array[2].surveyFields

-----------------------------------------------------------------------------
(* Claims about parseAcademicHistory (checked under SpecHistory) *)

\* The history rows whose grade is an approved one, with the type their
\* keyword stands for.
ApprovedRows ==
    ( "Regularidad - 8 (Ocho) Aprobado 10/07/2019 - Detalle" :> "SIGNED" ) @@
    ( "Examen - 7 (Siete) Aprobado 12/12/2019 - Detalle" :> "PASSED" ) @@
    ( "Promoción - 9 (Nueve) Promocionado 01/12/2020 - Detalle" :> "PASSED" ) @@
    ( "Equivalencia Total - Aprobada (Aprobada) Aprobado 01/03/2017 - Detalle" :> "PASSED" )

\* The history rows of the row grammar whose grade is Reprobado, 'No aprobad
\* ...', 'Inicio de dictado' or Ausente.
NotApprovedRows ==
    { "Examen - 2 (Dos) Reprobado 01/03/2019 - Detalle",
      "Regularidad - No aprobad (No aprobada) Reprobado 05/07/2018 - Detalle",
      "En curso - Inicio de dictado 15/03/2021 - Detalle",
      "Examen - Ausente 20/02/2019 - Detalle" }

\* An item the map callback throws on: a row outside the row grammar, or a
\* course text without a code.
Unparsable(item) ==
    \/ item.historyRow \notin (DOMAIN ApprovedRows \cup NotApprovedRows)
    \/ item.courseText \notin {"Fisica I (950701)", "Quimica (950702)"}

RECURSIVE RetainedRows(_)
\* The code and type of the approved rows of the items, in their order.
RetainedRows(items) ==
    IF items = <<>> THEN <<>>
    ELSE LET item == Head(items)
         IN  IF item.historyRow \in DOMAIN ApprovedRows
                 THEN << [courseCode |-> IF item.courseText = "Fisica I (950701)"
                                             THEN "950701" ELSE "950702",
                          type |-> ApprovedRows[item.historyRow]] >>
                          \o RetainedRows(Tail(items))
                 ELSE RetainedRows(Tail(items))

HistoryUnparsable == \E n \in 1..Len(histContent) : Unparsable(histContent[n])

\* C11: once the transcript's history items went through parseAcademicHistory,
\* the parse has failed exactly when some item is outside the row grammar (or
\* has no course code); otherwise the entries retained are exactly the rows
\* with an approved grade, in their order, so that no Reprobado, Ausente, 'No
\* aprobad' or 'Inicio de dictado' row is among them nor in signed / passed;
\* a getPassedCourses on a history with a row outside the grammar is rejected.
C11_RetainedIffApproved ==
    (histAdapter = "transcript" /\ histPc # "fetched") =>
        /\ HistoryUnparsable <=> histError # NONE
        /\ HistoryUnparsable => courseHistory = <<>>
        /\ ~HistoryUnparsable =>
              [n \in 1..Len(courseHistory) |->
                  [courseCode |-> courseHistory[n].courseCode, type |-> courseHistory[n].type]]
                  = RetainedRows(histContent)
        /\ PassedCoursesResolved =>
              /\ ~HistoryUnparsable
              /\ Range(histResult.value.signed) =
                    { e.courseCode : e \in Range(RetainedRows(histContent)) }
              /\ Range(histResult.value.passed) =
                    { e.courseCode : e \in { x \in Range(RetainedRows(histContent)) : x.type = "PASSED" } }
        /\ (histOp = "getPassedCourses" /\ histPc = "done" /\ HistoryUnparsable) =>
              histResult.state = "rejected"

\* getPassedCourses resolved for a history with an approved row that is
\* retained and a row of the grammar that is not.
C11_Witness ==
    /\ histAdapter = "transcript"
    /\ PassedCoursesResolved
    /\ \E n \in 1..Len(histContent) : histContent[n].historyRow \in NotApprovedRows
    /\ \E n \in 1..Len(histContent) : histContent[n].historyRow \in DOMAIN ApprovedRows
    /\ Len(courseHistory) < Len(histContent)
    /\ courseHistory # <<>>

-----------------------------------------------------------------------------
(* Claims about the records of the scan (checked under SpecScan) *)

\* The position of the schedule token of the record that starts at i0.
SchedulePosition(c, i0) ==
    IF At(c, BranchPosition(c, i0)) = "Escuela"
        THEN BranchPosition(c, i0) + 3
        ELSE BranchPosition(c, i0) + 2

\* The loop stands before a record whose fields up to the room parse and
\* whose schedule token is one of the sentinels.
SentinelRecord ==
    /\ scanPc = "loop"
    /\ ~LoopEnds(contents, i)
    /\ CourseCodeMatches(At(contents, i))
    /\ YearAndQuarterMatches(At(contents, BranchPosition(contents, i) - 2))
    /\ At(contents, BranchPosition(contents, i) - 1) # UNDEFINED
    /\ At(contents, BranchPosition(contents, i)) # UNDEFINED
    /\ At(contents, BranchPosition(contents, i)) = "Escuela" =>
           At(contents, BranchPosition(contents, i) + 1) = "Técnica -"
    /\ At(contents, SchedulePosition(contents, i)) \in SentinelStrings

\* C12: the loop iteration over a record whose schedule string is one of the
\* four sentinels does not fail: it appends one record whose schedules is
\* null and whose other fields are those of the record's tokens, and leaves
\* the loop running with the cursor right after the schedule token.
C12_SentinelGivesNullSchedules ==
    [][ SentinelRecord =>
            LET r == classSchedules'[Len(classSchedules')]
                branch == At(contents, BranchPosition(contents, i))
            IN  /\ scanPc' = "loop"
                /\ scanError' = scanError
                /\ i' = SchedulePosition(contents, i) + 1
                /\ classSchedules' = Append(classSchedules, r)
                /\ r.schedules = [null |-> TRUE]
                /\ r.courseCode = At(contents, i)
                /\ r.courseName[1] = At(contents, i + 1)
                /\ r.quarter \in {"A", "1C", "2C"}
                /\ r.year \in {2021, 2022}
                /\ r.classCode = ToUpperCase(At(contents, BranchPosition(contents, i) - 1))
                /\ r.branch = IF branch = "Escuela" THEN "PIÑERO"
                              ELSE IF branch = "Sin designar" THEN NULL
                              ELSE BranchOf(branch)
      ]_vars

\* A call resolved with a record without schedules, for a night sentinel,
\* followed by a record with schedules.
C12_Witness ==
    /\ scanResult.state = "resolved"
    /\ Len(scanResult.value) = 2
    /\ scanResult.value[1].schedules = [null |-> TRUE]
    /\ scanResult.value[2].schedules # [null |-> TRUE]
    /\ \E p \in 1..Len(contents) : contents[p] = "Do(n)0:0"

-----------------------------------------------------------------------------
(* Claims about the answers of the surveys (checked under Spec) *)

\* The second options' labels that read "no opina" whatever their case, and
\* those that end with a percent sign.
NoOpinaLabels == {"No Opina", "no opina", "NO OPINA"}
PercentLabels == {"50%"}

\* The answer rows with a selected option, in the popup's order.
SelectedRows(rows) == SelectSeq(rows, LAMBDA tr : tr.comboValue # "")

\* Some row with a selected option has a second option of neither kind.
SchemaViolation(rows) ==
    \E k \in DOMAIN SelectedRows(rows) :
        SelectedRows(rows)[k].secondOption \notin NoOpinaLabels \cup PercentLabels

\* The answer requests of portal getTakenSurveys calls whose popup has arrived.
AnsweredRequests ==
    { r \in requests : /\ r.call \in TakenSurveysCalls
                       /\ r.row > 0
                       /\ ~InFlight(r)
                       /\ ~r.response.threw }

\* C13: of an arrived popup, the rows without a selected option yield no
\* answer and no failure, whatever their second option; if every other row's
\* second option is "no opina" or ends with "%", the answers are one per such
\* row, in order: TEXT with the text of the adjacent textarea, or null when it
\* is empty, or PERCENTAGE with the selected text as an integer, or null when
\* it is not a number; and the resolved call carries exactly these answers.
\* If some other row's second option is of neither kind, the call is rejected.
C13_AnswerTyping ==
    \A r \in AnsweredRequests :
        LET c == r.call
            rows == AnswerRows(r.response.value.text)
            sel == SelectedRows(rows)
            answer == calls[c].answers[r.row]
        IN  /\ SchemaViolation(rows) =>
                  /\ calls[c].result.state = "rejected"
                  /\ calls[c].error.msg = "Couldn't parse second option"
            /\ ~SchemaViolation(rows) =>
                  /\ answer.state = "resolved"
                  /\ Len(answer.value.array) = Len(sel)
                  /\ \A k \in 1..Len(sel) :
                        LET a == answer.value.array[k]
                        IN  /\ a.question = sel[k].question
                            /\ sel[k].secondOption \in NoOpinaLabels =>
                                  /\ a.type = "TEXT"
                                  /\ a.value = IF sel[k].textarea = "" THEN JsNull
                                               ELSE Str(sel[k].textarea)
                            /\ sel[k].secondOption \in PercentLabels =>
                                  /\ a.type = "PERCENTAGE"
                                  /\ a.value = IF sel[k].comboValue = "75" THEN Num(75)
                                               ELSE JsNull
                  /\ calls[c].result.state = "resolved" =>
                        calls[c].result.value.array[r.row].surveyFields = answer.value

\* A call has resolved with the answers of a popup that has a row without
\* selected option and with a second option of neither kind, and with a TEXT
\* answer of null and a PERCENTAGE answer of null; another call was rejected
\* for a selected row's second option.
C13_Witness ==
    /\ \E r1, r2 \in AnsweredRequests :
          /\ r1.call = r2.call
          /\ calls[r1.call].result.state = "resolved"
          /\ r1.response.value.text = "popup: porcentaje 75"
          /\ r2.response.value.text = "popup: texto en blanco"
          /\ calls[r1.call].answers[r2.row].value.array[1].value = JsNull
          /\ calls[r1.call].answers[r2.row].value.array[2].value = JsNull
          /\ \E tr \in Range(AnswerRows(r1.response.value.text)) :
                tr.comboValue = "" /\ tr.secondOption = "No"
    /\ \E r \in AnsweredRequests :
          /\ SchemaViolation(AnswerRows(r.response.value.text))
          /\ calls[r.call].result.state = "rejected"

-----------------------------------------------------------------------------
(* Claims about whole documents (checked under SpecScanFair) *)

\* The documents of header, id and name, column row, well-formed records and
\* trailing marker.
WellFormedInputs ==
    WellFormedDocuments \cup UNION { WithSentinel(d) : d \in WellFormedDocuments }

WellFormedContents == contents \in WellFormedInputs

\* The positions of the course codes of a well-formed document: one per record.
CourseCodePositions(c) == { p \in 0..(Len(c) - 1) : CourseCodeMatches(At(c, p)) }

\* The k-th position of S, from the least.
Nth(S, k) == CHOOSE x \in S : Cardinality({ y \in S : y < x }) = k - 1

\* The call has resolved with one ClassSchedule per record, in the order of
\* the document, and nothing was logged.
ResolvedInDocumentOrder ==
    LET starts == CourseCodePositions(contents)
    IN  /\ scanPc = "done"
        /\ scanResult.state = "resolved"
        /\ scanLog = <<>>
        /\ Len(scanResult.value) = Cardinality(starts)
        /\ \A k \in 1..Cardinality(starts) :
              LET r == scanResult.value[k]
                  p == Nth(starts, k)
                  b == BranchPosition(contents, p)
              IN  /\ r.courseCode = At(contents, p)
                  /\ r.courseName = IF b = p + 5
                                        THEN <<At(contents, p + 1), At(contents, p + 2)>>
                                        ELSE <<At(contents, p + 1)>>
                  /\ r.quarter \in {"A", "1C", "2C"}
                  /\ r.classCode = ToUpperCase(At(contents, b - 1))
                  /\ At(contents, b) = "Escuela" =>
                        /\ At(contents, b + 1) = "Técnica -"
                        /\ r.branch = "PIÑERO"
                  /\ SchedulesFor(At(contents, SchedulePosition(contents, p)), r.schedules)

\* C14: a call on a well-formed document of N records ends, and ends resolved
\* with exactly N ClassSchedules in document order, each quarter being A, 1C or
\* 2C and the branch of an Escuela record being PIÑERO; a call on the document
\* of one empty token ends resolved with the empty list.
C14_WellFormedResolves ==
    /\ [](WellFormedContents /\ scanPc = "done" => ResolvedInDocumentOrder)
    /\ [](IsEmptyPdf(contents) /\ scanPc = "done" => scanResult = Resolved(<<>>))
    /\ (WellFormedContents \/ IsEmptyPdf(contents)) ~>
           (scanPc = "done" /\ scanResult.state = "resolved")

\* A document of two records, one with a wrapped course name and one of
\* Escuela, has resolved with its two ClassSchedules.
C14_Witness ==
    /\ WellFormedContents
    /\ ResolvedInDocumentOrder
    /\ Len(scanResult.value) = 2
    /\ Len(scanResult.value[1].courseName) = 2
    /\ scanResult.value[2].branch = "PIÑERO"
    /\ Len(contents) = 3 + 7 + 8 + 8 + 1

-----------------------------------------------------------------------------
(* Claims about the cache (checked under Spec) *)

\* C15: once the cache holds a content for a url, no step changes or removes
\* that entry, whatever the order in which calls are made and responses arrive.
C15_CacheEntryNeverChanges ==
    [][ \A url \in DOMAIN CACHED_PAGE_CONTENTS :
            CACHED_PAGE_CONTENTS[url] # NotCached =>
                CACHED_PAGE_CONTENTS'[url] = CACHED_PAGE_CONTENTS[url] ]_vars

-----------------------------------------------------------------------------
(* Claims about the loop's progress (checked under SpecScanFair) *)

\* A step is a pass of the loop's body that completes: a record was pushed.
CompletedIteration ==
    /\ scanPc = "loop"
    /\ scanPc' = "loop"
    /\ classSchedules' # classSchedules

\* C16: the cursor never decreases and grows by at least 7 in every pass of the
\* loop that completes; the loop is always left, and the call ends either
\* resolved, the cursor standing on the trailing marker after the last record,
\* or rejected.
C16_LoopTerminates ==
    /\ [][i' >= i]_vars
    /\ [][CompletedIteration => i' >= i + 7 /\ Len(classSchedules') = Len(classSchedules) + 1]_vars
    /\ [](scanPc = "loop" => <>(scanPc = "done"))
    /\ [](scanPc = "done" =>
            \/ /\ scanResult = Resolved(classSchedules)
               /\ IsEmptyPdf(contents) \/ LoopEnds(contents, i)
            \/ scanResult = Rejected(scanError))

\* A document without trailing marker: the loop has pushed a record, has
\* gone on past the last token and has ended by failing.
C16_Witness ==
    /\ scanPc = "done"
    /\ scanResult.state = "rejected"
    /\ Len(classSchedules) >= 1
    /\ i > Len(contents)
    /\ TrailingMarker \notin Range(contents)

-----------------------------------------------------------------------------
(* Claims about the reporting of failures (checked under Spec) *)

\* C17: every call of a public operation that has failed with anything but the
\* session-expired error has made exactly one call to apiConnector.logMessage.
C17_FailureLoggedExactlyOnce ==
    \A c \in DOMAIN calls :
        (Settled(c) /\ calls[c].error # NONE /\ ~IsLoggedOutError(calls[c].error)) =>
            Len(calls[c].logged) = 1

=============================================================================
